---- MODULE Spec2Model ----
(***************************************************************************)
(* Review dispatch and access reconciliation of the tradepl Telegram bot   *)
(* (src/bot/main.py, src/bot/database.py, src/bot/config.py).              *)
(*                                                                         *)
(* The backing store (PostgreSQL) is modelled by the rows the bot reads    *)
(* and writes: the two review request tables (one function `items`, each   *)
(* row carrying its kind), the review chat configuration and the           *)
(* panel_admins rights.  Every `await` of the bot is one step of the       *)
(* model; the code between two awaits is atomic, as it is under asyncio.   *)
(***************************************************************************)
EXTENDS Integers, Sequences, FiniteSets, TLC

(* ------------------------------ bounds --------------------------------- *)

\* Review requests (of both kinds together) that producers create.
MaxItems == 3

\* Environment events of one behaviour: failures of a store or Telegram call,
\* writes of the store's other clients (a request without proof blob included,
\* its repair not),
\* a shutdown request, a process restart.
MaxEnv == 1

\* Readings of the wall clock that are told apart (later ones read the same).
MaxClock == 1

\* Characters of a request id that format_*_ticket is called with.
MaxIdLen == 5

\* The notifications delivered in one behaviour.
MaxNotes == 2

\* Handlers of panel commands and panel buttons that run at the same time.
MaxHandlers == 2

\* Rows of access_tokens kept for one token type and user.
MaxTokens == 2

(* ------------------------- program constants --------------------------- *)

\* config.py: REVIEW_BATCH_LIMIT = int(os.getenv('BOT_REVIEW_BATCH_LIMIT', '20')),
\* here set through the environment to a batch smaller than MaxItems.
REVIEW_BATCH_LIMIT == 2

Kinds == {"deposit", "kyc"}

\* The two asyncio.Event signals of main(): dispatch_event and access_event.
Events == {"dispatch", "access"}

Ids == 1..MaxItems

\* The values trading_risk_config holds for a review chat id in the model:
\* unset, not a number, zero, a supergroup id (negative) and a positive id.
ChatRaws == {"", "abc", "0", "-1001", "1002"}

\* Telegram users that are known to the model.
MaxUsers == 3

Users == 1..MaxUsers

\* config.py: OWNER_TELEGRAM_ID = int(os.getenv('OWNER_TELEGRAM_ID', '0')), here
\* configured to the first user.
OWNER_TELEGRAM_ID == 1

VARIABLES
    \* ---- backing store
    items,            \* review request rows, by id (ids follow created_at)
    review_chats,     \* trading_risk_config: kind -> raw chat id text
    panel_admins,     \* panel_admins: telegram id -> its deposit_review right
    \* ---- process memory of the bot
    stop_event,       \* asyncio.Event BOT_STOP_EVENT
    dispatch_event,   \* asyncio.Event dispatch_event
    REVIEW_HEALTH,    \* the module-level health dict
    dpc,              \* where review_dispatch_loop is suspended
    kind,             \* which dispatch_pending_*_reviews is running
    chat_id,          \* its local deposit_chat_id / kyc_chat_id
    batch,            \* its rows not yet processed (head: the row in flight)
    dispatched,       \* its local counter
    deposit_sent,     \* review_dispatch_loop's local deposit_sent
    access_event,     \* asyncio.Event access_event
    LAST_DEPOSIT_REVIEW_ACCESS,   \* the module-level previous rights snapshot
    LAST_DEPOSIT_REVIEW_CHAT_ID,  \* the module-level previous channel id
    loaded,           \* history: the rights snapshot the last finished reconciliation pass loaded
    access_hist,      \* history: what the reconciliation passes read, called and left undone
    apc,              \* where review_access_event_loop (or main's first sync) is
    sync,             \* the locals of its sync_deposit_review_chat_access_once
    join,             \* the locals of the on_chat_join_request in progress
    review_chat_cmd,  \* the locals of the cmd_review_chat in progress
    kyc_reviewers,    \* panel_admins: the telegram ids whose kyc_review right is granted
    decision,         \* the locals of the review callback in progress, and what it has done
    tokens,           \* access_tokens: (token type, telegram id) -> its unexpired and expired rows
    panel,            \* the locals of each panel command or panel button handler in progress
    lpc,              \* where review_listener_loop is suspended
    listener_conn,    \* db.listener_conn and what became of it
    listener_online,  \* review_listener_loop's local listener_online
    notices,          \* history: how often on_review_notify was called, and its last payload
    ticket_kind,      \* the format_*_ticket last called
    ticket_no,        \* its ticket_no
    request_id,       \* its request_id (the characters' code points)
    ticket,           \* what it returned (the characters' code points)
    \* ---- environment
    now,              \* the wall clock read by utc_now_iso()
    env,              \* environment events left
    \* ---- history (read by the properties only)
    published,        \* id -> number of messages this bot posted for it
    claimOk,          \* id -> number of mark_*_dispatched calls that returned True
    claimNo,          \* id -> some mark_*_dispatched call returned False
    connects,         \* subscriptions the listener has established
    raised,           \* event -> times the listener loop has set it
    pass              \* what the current (or last) dispatch pass did

storeVars == <<items, review_chats>>
accessVars == <<panel_admins, access_event, LAST_DEPOSIT_REVIEW_ACCESS,
                LAST_DEPOSIT_REVIEW_CHAT_ID, loaded, access_hist, apc, sync, join>>
loopVars == <<stop_event, dispatch_event, REVIEW_HEALTH, dpc, kind, chat_id, batch,
              dispatched, deposit_sent>>
histVars == <<published, claimOk, claimNo, pass>>
listenerVars == <<lpc, listener_conn, listener_online, connects, raised, notices>>
ticketVars == <<ticket_kind, ticket_no, request_id, ticket>>
callbackVars == <<kyc_reviewers, decision>>
panelVars == <<tokens, panel>>
handlerVars == <<review_chat_cmd, callbackVars, panelVars>>
vars == <<storeVars, loopVars, accessVars, listenerVars, ticketVars, handlerVars, now, env,
          histVars>>

(* ------------------------------ helpers -------------------------------- *)

Min(a, b) == IF a < b THEN a ELSE b

Max(a, b) == IF a > b THEN a ELSE b

Range(s) == {s[n] : n \in DOMAIN s}

NoDup(s) == \A m, n \in DOMAIN s : m # n => s[m] # s[n]

\* The ids of a set in ascending order (ORDER BY created_at ASC).
RECURSIVE Ascending(_)
Ascending(S) ==
    IF S = {} THEN <<>>
    ELSE LET m == CHOOSE x \in S : \A y \in S : x <= y
         IN <<m>> \o Ascending(S \ {m})

\* The ids of a set in descending order.
RECURSIVE Descending(_)
Descending(S) ==
    IF S = {} THEN <<>>
    ELSE LET m == CHOOSE x \in S : \A y \in S : x >= y
         IN <<m>> \o Descending(S \ {m})

Take(s, n) == SubSeq(s, 1, Min(n, Len(s)))

(* ------------------------------ tickets -------------------------------- *)

\* Strings are the sequences of their characters' code points (ord).
\* "0", "f", "-": the characters request ids are made of in the model.
IdChars == {48, 102, 45}

RequestIds == UNION {[1..n -> IdChars] : n \in 0..MaxIdLen}

\* ticket_no values: negative, zero, below and above 1000000, multiples of 10000000.
TicketSeeds ==
    {0 - 20000000, 0 - 1000001, 0 - 5, 0, 5, 999999, 1000000, 1234567, 9999999,
     10000000, 10000005, 20000000, 123456789}

\* str(n) for n >= 0
RECURSIVE DecimalCodes(_)
DecimalCodes(n) ==
    IF n < 10 THEN <<48 + n>> ELSE Append(DecimalCodes(n \div 10), 48 + (n % 10))

\* f"{n}" of an int
StrInt(n) == IF n < 0 THEN <<45>> \o DecimalCodes(0 - n) ELSE DecimalCodes(n)

\* f"{v:07d}" of v >= 0: padded with zeros to a width of at least 7.
Format07d(v) ==
    LET d == DecimalCodes(v)
    IN IF Len(d) >= 7 THEN d ELSE [n \in 1..(7 - Len(d)) |-> 48] \o d

\* `for ch in seed: h = (h * base + ord(ch)) % m`
RECURSIVE RollingHash(_, _, _, _)
RollingHash(h, seed, base, m) ==
    IF seed = <<>> THEN h
    ELSE RollingHash((h * base + Head(seed)) % m, Tail(seed), base, m)

\* local_ticket_seed_number
LocalTicketSeedNumberBase31(seed) ==
    LET h == RollingHash(0, seed, 31, 9000000)
    IN IF h < 1000000 THEN h + 1000000 ELSE h

LocalTicketSeedNumber(seed) ==
    LET h == RollingHash(0, seed, 33, 9000000)
    IN IF h < 1000000 THEN h + 1000000 ELSE h

\* normalize_local_ticket_number, up to its return: the value that is formatted.
TicketBodyNotRaised(value, seed) ==
    LET v0 == IF value < 0 THEN 0 - value ELSE value
        v1 == IF v0 <= 0 THEN LocalTicketSeedNumber(seed) ELSE v0
        v2 == v1 % 10000000
        v3 == IF v2 <= 0 THEN LocalTicketSeedNumber(seed) % 10000000 ELSE v2
    IN v3

TicketBody(value, seed) ==
    LET v0 == IF value < 0 THEN 0 - value ELSE value
        v1 == IF v0 <= 0 THEN LocalTicketSeedNumber(seed) ELSE v0
        v2 == v1 % 10000000
        v3 == IF v2 <= 0 THEN LocalTicketSeedNumber(seed) % 10000000 ELSE v2
    IN IF v3 < 1000000 THEN v3 + 1000000 ELSE v3

\* normalize_local_ticket_number: return f"{v:07d}"
NormalizeLocalTicketNumber(value, seed) == Format07d(TicketBody(value, seed))

\* local_ticket_seed_letters
LocalTicketSeedLettersMod27(seed) ==
    LET h == RollingHash(0, seed, 131, 26 * 27)
    IN <<97 + ((h \div 26) % 27), 97 + (h % 26)>>

LocalTicketSeedLetters(seed) ==
    LET h == RollingHash(0, seed, 131, 26 * 26)
    IN <<97 + ((h \div 26) % 26), 97 + (h % 26)>>

\* "real_deposit:" and "kyc:", "BXdep" and "BXkyc"
LetterSeedPrefix(k) ==
    IF k = "deposit"
    THEN <<114, 101, 97, 108, 95, 100, 101, 112, 111, 115, 105, 116, 58>>
    ELSE <<107, 121, 99, 58>>

TicketPrefix(k) ==
    IF k = "deposit" THEN <<66, 88, 100, 101, 112>> ELSE <<66, 88, 107, 121, 99>>

\* format_deposit_ticket / format_kyc_ticket
FormatTicket(k, no, id) ==
    LET digits == NormalizeLocalTicketNumber(no, id)
        letters == LocalTicketSeedLetters(LetterSeedPrefix(k) \o StrInt(no) \o <<58>> \o id)
    IN TicketPrefix(k) \o digits \o letters

\* A dispatch function renders the ticket of a row: format_<k>_ticket(no, id)
\* (one call is followed, the encoder keeps nothing between calls).
RenderTicket(k, no, id) ==
    /\ ticket_kind = "none"
    /\ ticket_kind' = k
    /\ ticket_no' = no
    /\ request_id' = id
    /\ ticket' = FormatTicket(k, no, id)
    /\ UNCHANGED <<storeVars, loopVars, accessVars, listenerVars, handlerVars, now, env, histVars>>

(* --------------------------- backing store ----------------------------- *)

\* A row that no producer has created yet.
NoItem == [kind |-> "none", status |-> "none", review_message_id |-> 0, proof_blob |-> FALSE]

\* review_message_id: 0 is NULL, n > 0 the bot's n-th message for the row,
\* -1 a message of another claimant.
ForeignMessage == 0 - 1

\* utc_now_iso(): the clock is read; the model advances it once per pass.
Tick(t) == Min(t + 1, MaxClock)

\* A parser that would take a value it cannot read for the chat 1.
ParseChatIdLenient(raw) ==
    CASE raw = "-1001" -> 0 - 1001
      [] raw = "1002" -> 1002
      [] raw = "abc" -> 1
      [] OTHER -> 0

\* parse_chat_id: int(str(raw).strip()), None (0 here) when that raises or is 0.
ParseChatId(raw) ==
    CASE raw = "-1001" -> 0 - 1001
      [] raw = "1002" -> 1002
      [] OTHER -> 0

\* WHERE r.status = 'pending' AND r.review_message_id IS NULL of fetch_pending_*.
FetchWhereAnyMessage(row) == row.status = "pending"

FetchWhere(row) == row.status = "pending" /\ row.review_message_id = 0

\* ORDER BY r.created_at ASC of fetch_pending_*.
FetchOrderNewestFirst(S) == Descending(S)

FetchOrder(S) == Ascending(S)

\* fetch_pending_deposit_reviews / fetch_pending_kyc_reviews: the rows of table k
\* that match, oldest first, LIMIT max(1, limit).
FetchPending(k, limit) ==
    LET ids == FetchOrder({i \in Ids : items[i].kind = k /\ FetchWhere(items[i])})
        cut == Take(ids, Max(1, limit))
    IN [n \in DOMAIN cut |-> [id |-> cut[n], proof_blob |-> items[cut[n]].proof_blob]]

\* WHERE id = $1 AND status = 'pending' AND review_message_id IS NULL of mark_*_dispatched.
MarkWhereAnyMessage(row) == row.status = "pending"

MarkWhere(row) == row.status = "pending" /\ row.review_message_id = 0

\* mark_deposit_review_dispatched / mark_kyc_review_dispatched: the table after the
\* conditional UPDATE (the call returns True iff a row was affected).
MarkDispatched(i, message_id) ==
    IF MarkWhere(items[i])
    THEN [items EXCEPT ![i].review_message_id = message_id]
    ELSE items

(* ------------------------------ history -------------------------------- *)

\* The rows of table k that are pending and unclaimed, oldest first.
Unclaimed(k) ==
    Ascending({i \in Ids : /\ items[i].kind = k
                           /\ items[i].status = "pending"
                           /\ items[i].review_message_id = 0})

NoPass ==
    [state      |-> "idle",
     seen       |-> [k \in Kinds |-> FALSE],
     configured |-> [k \in Kinds |-> FALSE],
     atFetch    |-> [k \in Kinds |-> <<>>],
     blobs      |-> {},
     attempted  |-> [k \in Kinds |-> <<>>],
     raised     |-> {},
     claimRaised |-> {},
     published  |-> [k \in Kinds |-> <<>>],
     claimed    |-> [k \in Kinds |-> 0]]

\* What a pass found for kind k when it looked: whether a destination was
\* configured, and the unclaimed rows of the table at that moment.
Looked(p, k, conf) ==
    [p EXCEPT !.seen[k] = TRUE,
              !.configured[k] = conf,
              !.atFetch[k] = Unclaimed(k),
              !.blobs = @ \cup {i \in Range(Unclaimed(k)) : items[i].proof_blob}]

(* ---------------------------- HealthState ------------------------------ *)

\* REVIEW_HEALTH as the module creates it (the listener's and the dispatch loop's
\* fields; timestamps are clock readings, "" is 0).
InitialHealth ==
    [last_notify_at             |-> 0,
     last_notify_payload        |-> <<>>,
     listener_connected         |-> FALSE,
     listener_connected_at      |-> 0,
     last_listener_error_at     |-> 0,
     last_listener_error        |-> "",
     last_dispatch_started_at   |-> 0,
     last_dispatch_finished_at  |-> 0,
     last_dispatch_deposit_sent |-> 0,
     last_dispatch_kyc_sent     |-> 0,
     last_dispatch_error        |-> ""]

\* update_review_health(last_dispatch_started_at=utc_now_iso(), last_dispatch_error="")
HealthStarted(h, t) ==
    [h EXCEPT !.last_dispatch_started_at = t, !.last_dispatch_error = ""]

\* update_review_health(last_dispatch_finished_at=..., last_dispatch_deposit_sent=...,
\*                      last_dispatch_kyc_sent=..., last_dispatch_error="")
HealthFinishedKeepsCounters(h, t, dsent, ksent) ==
    [h EXCEPT !.last_dispatch_finished_at = t,
              !.last_dispatch_deposit_sent = IF dsent > 0 THEN dsent ELSE @,
              !.last_dispatch_kyc_sent = IF ksent > 0 THEN ksent ELSE @,
              !.last_dispatch_error = ""]

HealthFinished(h, t, dsent, ksent) ==
    [h EXCEPT !.last_dispatch_finished_at = t,
              !.last_dispatch_deposit_sent = dsent,
              !.last_dispatch_kyc_sent = ksent,
              !.last_dispatch_error = ""]

\* A handler that would stamp the finish time and leave the marker as it is.
HealthFailedUnmarked(h, t) ==
    [h EXCEPT !.last_dispatch_finished_at = t]

\* update_review_health(last_dispatch_finished_at=..., last_dispatch_error="dispatch_failed")
HealthFailed(h, t) ==
    [h EXCEPT !.last_dispatch_finished_at = t,
              !.last_dispatch_error = "dispatch_failed"]

(* ------------------------- review_dispatch_loop ------------------------ *)

\* `while not stop_event.is_set()`: the loop leaves, or suspends in asyncio.wait.
LoopTop == IF stop_event THEN "done" ELSE "wait"

\* `if claimed: dispatched += 1`
CountClaimEveryPublish(cnt, claimed) == cnt + 1

CountClaim(cnt, claimed) == IF claimed THEN cnt + 1 ELSE cnt

\* A for loop without the `continue`.
SkipNothing(rows) == rows

\* `if not proof_blob: continue`: the rows of the batch from the first one that
\* has a payload.
RECURSIVE SkipEmpty(_)
SkipEmpty(rows) ==
    IF rows = <<>> THEN <<>>
    ELSE IF ~Head(rows).proof_blob THEN SkipEmpty(Tail(rows))
    ELSE rows

\* dispatch_pending_<k>_reviews returns cnt: review_dispatch_loop goes on to the
\* KYC function, or (after it) writes the health record and loops.
ReturnFromKind(k, cnt) ==
    IF k = "deposit"
    THEN /\ dpc' = "chats"
         /\ kind' = "kyc"
         /\ deposit_sent' = cnt
         /\ batch' = <<>>
         /\ dispatched' = 0
         /\ chat_id' = 0
         /\ UNCHANGED <<REVIEW_HEALTH>>
    ELSE /\ REVIEW_HEALTH' = HealthFinished(REVIEW_HEALTH, now, deposit_sent, cnt)
         /\ dpc' = LoopTop
         /\ kind' = "none"
         /\ batch' = <<>>
         /\ dispatched' = 0
         /\ chat_id' = 0
         /\ UNCHANGED <<deposit_sent>>

\* The for loop goes on with the rows left: it suspends in send_document for the
\* next row that has a payload, or the function returns.
ContinueItems(k, rows, cnt) ==
    IF SkipEmpty(rows) # <<>>
    THEN /\ dpc' = "publish"
         /\ batch' = SkipEmpty(rows)
         /\ dispatched' = cnt
         /\ UNCHANGED <<kind, chat_id, deposit_sent, REVIEW_HEALTH>>
    ELSE ReturnFromKind(k, cnt)

PassEnds(p, k) == IF k = "kyc" THEN [p EXCEPT !.state = "finished"] ELSE p

PassEndsAfter(p, k, rows) == IF SkipEmpty(rows) = <<>> THEN PassEnds(p, k) ELSE p

\* A loop whose handler would let the failure end the task.
PassFailsAndExits ==
    /\ REVIEW_HEALTH' = HealthFailed(REVIEW_HEALTH, now)
    /\ dpc' = "done"
    /\ kind' = "none"
    /\ batch' = <<>>
    /\ dispatched' = 0
    /\ chat_id' = 0
    /\ pass' = [pass EXCEPT !.state = "failed"]
    /\ UNCHANGED <<deposit_sent>>

\* An exception escapes dispatch_pending_*_reviews: the loop's `except Exception`.
PassFails ==
    /\ REVIEW_HEALTH' = HealthFailed(REVIEW_HEALTH, now)
    /\ dpc' = LoopTop
    /\ kind' = "none"
    /\ batch' = <<>>
    /\ dispatched' = 0
    /\ chat_id' = 0
    /\ pass' = [pass EXCEPT !.state = "failed"]
    /\ UNCHANGED <<deposit_sent>>

\* The task starts: dispatch_event.set(), then the loop's first test of stop_event.
DispatchLoopStart ==
    /\ dpc = "start"
    /\ dispatch_event' = TRUE
    /\ dpc' = LoopTop
    /\ UNCHANGED <<storeVars, stop_event, REVIEW_HEALTH, kind, chat_id, batch, dispatched,
                   deposit_sent, now, env, histVars>>
    /\ UNCHANGED <<accessVars, listenerVars, ticketVars, handlerVars>>

\* asyncio.wait returns with stop_event set: `break`.
DispatchWakeStop ==
    /\ dpc = "wait"
    /\ stop_event
    /\ dpc' = "done"
    /\ UNCHANGED <<storeVars, stop_event, dispatch_event, REVIEW_HEALTH, kind, chat_id, batch,
                   dispatched, deposit_sent, now, env, histVars>>
    /\ UNCHANGED <<accessVars, listenerVars, ticketVars, handlerVars>>

\* A pass starts: the health record is stamped and dispatch_pending_deposit_reviews
\* suspends in db.get_review_chats().
StartPass ==
    /\ now' = Tick(now)
    /\ REVIEW_HEALTH' = HealthStarted(REVIEW_HEALTH, now')
    /\ dpc' = "chats"
    /\ kind' = "deposit"
    /\ chat_id' = 0
    /\ batch' = <<>>
    /\ dispatched' = 0
    /\ deposit_sent' = 0
    /\ pass' = [NoPass EXCEPT !.state = "running"]
    /\ UNCHANGED <<storeVars, stop_event, env, published, claimOk, claimNo>>

\* A loop that would start its pass and leave the signal raised.
DispatchWakeSignalKeepsSignal ==
    /\ dpc = "wait"
    /\ ~stop_event
    /\ dispatch_event
    /\ UNCHANGED dispatch_event
    /\ StartPass
    /\ UNCHANGED <<accessVars, listenerVars, ticketVars, handlerVars>>

\* asyncio.wait returns because dispatch_event is set: it is cleared, a pass starts.
DispatchWakeSignal ==
    /\ dpc = "wait"
    /\ ~stop_event
    /\ dispatch_event
    /\ dispatch_event' = FALSE
    /\ StartPass
    /\ UNCHANGED <<accessVars, listenerVars, ticketVars, handlerVars>>

\* A timeout that would start a pass wherever the loop stands, also inside a pass.
DispatchWakeTimeoutOverlaps ==
    /\ dpc \in {"wait", "chats", "fetch", "publish", "claim"}
    /\ ~stop_event
    /\ ~dispatch_event
    /\ UNCHANGED dispatch_event
    /\ StartPass
    /\ UNCHANGED <<accessVars, listenerVars, ticketVars, handlerVars>>

\* A loop that would go back to waiting when the timeout finds no signal.
DispatchWakeTimeoutIdles ==
    /\ dpc = "wait"
    /\ ~stop_event
    /\ ~dispatch_event
    /\ UNCHANGED vars

\* asyncio.wait returns on its timeout (max(5, REVIEW_FALLBACK_SECONDS)) with neither
\* event set: a pass starts all the same.
DispatchWakeTimeout ==
    /\ dpc = "wait"
    /\ ~stop_event
    /\ ~dispatch_event
    /\ UNCHANGED dispatch_event
    /\ StartPass
    /\ UNCHANGED <<accessVars, listenerVars, ticketVars, handlerVars>>

\* db.get_review_chats() returns; parse_chat_id; `if not chat_id: return 0`, else the
\* function suspends in the fetch.
DispatchChats ==
    /\ dpc = "chats"
    /\ LET id == ParseChatId(review_chats[kind])
       IN IF id = 0
          THEN /\ ReturnFromKind(kind, 0)
               /\ pass' = PassEnds(Looked(pass, kind, FALSE), kind)
          ELSE /\ dpc' = "fetch"
               /\ chat_id' = id
               /\ pass' = pass
               /\ UNCHANGED <<kind, batch, dispatched, deposit_sent, REVIEW_HEALTH>>
    /\ UNCHANGED <<storeVars, stop_event, dispatch_event, now, env, published, claimOk, claimNo>>
    /\ UNCHANGED <<accessVars, listenerVars, ticketVars, handlerVars>>

\* db.get_review_chats() raises.
DispatchChatsRaise ==
    /\ dpc = "chats"
    /\ env > 0
    /\ env' = env - 1
    /\ PassFails
    /\ UNCHANGED <<storeVars, stop_event, dispatch_event, now, published, claimOk, claimNo>>
    /\ UNCHANGED <<accessVars, listenerVars, ticketVars, handlerVars>>

\* db.fetch_pending_*_reviews(REVIEW_BATCH_LIMIT) returns; `if not requests: return 0`,
\* else the for loop runs to its first send_document.
DispatchFetch ==
    /\ dpc = "fetch"
    /\ LET rows == FetchPending(kind, REVIEW_BATCH_LIMIT)
       IN /\ IF rows = <<>> THEN ReturnFromKind(kind, 0) ELSE ContinueItems(kind, rows, 0)
          /\ pass' = PassEndsAfter(Looked(pass, kind, TRUE), kind, rows)
    /\ UNCHANGED <<storeVars, stop_event, dispatch_event, now, env, published, claimOk, claimNo>>
    /\ UNCHANGED <<accessVars, listenerVars, ticketVars, handlerVars>>

\* db.fetch_pending_*_reviews raises.
DispatchFetchRaise ==
    /\ dpc = "fetch"
    /\ env > 0
    /\ env' = env - 1
    /\ PassFails
    /\ UNCHANGED <<storeVars, stop_event, dispatch_event, now, published, claimOk, claimNo>>
    /\ UNCHANGED <<accessVars, listenerVars, ticketVars, handlerVars>>

\* bot.send_document returns the posted message; the function suspends in the claim.
DispatchPublish ==
    /\ dpc = "publish"
    /\ LET i == Head(batch).id
       IN /\ published' = [published EXCEPT ![i] = @ + 1]
          /\ pass' = [pass EXCEPT !.attempted[kind] = Append(@, i),
                                  !.published[kind] = Append(@, i)]
    /\ dpc' = "claim"
    /\ UNCHANGED <<storeVars, stop_event, dispatch_event, REVIEW_HEALTH, kind, chat_id, batch,
                   dispatched, deposit_sent, now, env, claimOk, claimNo>>
    /\ UNCHANGED <<accessVars, listenerVars, ticketVars, handlerVars>>

\* A for loop without the per-item handler: the exception escapes the function.
DispatchPublishRaiseEscapes ==
    /\ dpc = "publish"
    /\ env > 0
    /\ env' = env - 1
    /\ REVIEW_HEALTH' = HealthFailed(REVIEW_HEALTH, now)
    /\ dpc' = LoopTop
    /\ kind' = "none"
    /\ batch' = <<>>
    /\ dispatched' = 0
    /\ chat_id' = 0
    /\ pass' = [pass EXCEPT !.state = "failed",
                            !.attempted[kind] = Append(@, Head(batch).id),
                            !.raised = @ \cup {Head(batch).id}]
    /\ UNCHANGED <<storeVars, stop_event, dispatch_event, deposit_sent, now, published,
                   claimOk, claimNo>>
    /\ UNCHANGED <<accessVars, listenerVars, ticketVars, handlerVars>>

\* bot.send_document raises: the item's `except Exception`, then the next row.
DispatchPublishRaise ==
    /\ dpc = "publish"
    /\ env > 0
    /\ env' = env - 1
    /\ LET i == Head(batch).id
       IN pass' = PassEndsAfter([pass EXCEPT !.attempted[kind] = Append(@, i),
                                              !.raised = @ \cup {i}],
                                kind, Tail(batch))
    /\ ContinueItems(kind, Tail(batch), dispatched)
    /\ UNCHANGED <<storeVars, stop_event, dispatch_event, now, published, claimOk, claimNo>>
    /\ UNCHANGED <<accessVars, listenerVars, ticketVars, handlerVars>>

\* db.mark_*_review_dispatched returns: the row is claimed and counted, or the claim
\* was lost and the message stays posted; then the next row.
DispatchClaim ==
    /\ dpc = "claim"
    /\ LET i == Head(batch).id
           claimed == MarkDispatched(i, published[i]) # items
       IN /\ items' = MarkDispatched(i, published[i])
          /\ claimOk' = [claimOk EXCEPT ![i] = IF claimed THEN @ + 1 ELSE @]
          /\ claimNo' = [claimNo EXCEPT ![i] = @ \/ ~claimed]
          /\ pass' = PassEndsAfter([pass EXCEPT !.claimed[kind] = IF claimed THEN @ + 1 ELSE @],
                                   kind, Tail(batch))
          /\ ContinueItems(kind, Tail(batch), CountClaim(dispatched, claimed))
    /\ UNCHANGED <<review_chats, stop_event, dispatch_event, now, env, published>>
    /\ UNCHANGED <<accessVars, listenerVars, ticketVars, handlerVars>>

\* db.mark_*_review_dispatched raises before the UPDATE took effect: the item's
\* `except Exception`, then the next row.
DispatchClaimRaise ==
    /\ dpc = "claim"
    /\ env > 0
    /\ env' = env - 1
    /\ pass' = PassEndsAfter([pass EXCEPT !.claimRaised = @ \cup {Head(batch).id}],
                             kind, Tail(batch))
    /\ ContinueItems(kind, Tail(batch), dispatched)
    /\ UNCHANGED <<storeVars, stop_event, dispatch_event, now, published, claimOk, claimNo>>
    /\ UNCHANGED <<accessVars, listenerVars, ticketVars, handlerVars>>


(* --------------------- sync_deposit_review_chat_access_once ------------ *)

NoSync == [pc |-> "idle", chat_id |-> 0, current |-> <<>>, revoke |-> <<>>, restore |-> <<>>]

NoJoin == [pc |-> "idle", chat |-> 0, user |-> 0, chat_id |-> 0, allowed |-> FALSE,
           call |-> "none"]

\* The handler tasks that polling runs side by side.
Handlers == 1..MaxHandlers

\* The (token_type, telegram_id) pairs of access_tokens rows.
TokenKeys == {<<"owner", OWNER_TELEGRAM_ID>>} \cup {<<"admin", u>> : u \in Users}

NoTokens == [active |-> 0, expired |-> 0]

NoPanel == [pc |-> "idle", action |-> "none", type |-> "none", user |-> 0]

NoDecision ==
    [pc |-> "idle", kind |-> "none", data |-> <<>>, chat |-> 0, user |-> 0, action |-> <<>>,
     request_id |-> <<>>, called |-> FALSE, edited |-> FALSE]

NoCmd == [pc |-> "idle", user |-> 0, chat_id |-> 0, current |-> <<>>, revoke |-> <<>>,
          restore |-> <<>>]

\* No pass has read, called or failed yet.
NoAccessHist ==
    [failed |-> FALSE,
     before |-> [access |-> <<>>, chat |-> 0],
     read   |-> <<>>,
     calls  |-> [u \in Users |-> "none"]]

\* The Telegram call that a pass with locals s is suspended in, if any, is the
\* last one issued for its identity.
IssuedBy(h, s) ==
    IF s.pc = "kick" THEN [h EXCEPT !.calls[Head(s.revoke)] = "kick"]
    ELSE IF s.pc = "unban" THEN [h EXCEPT !.calls[Head(s.restore)] = "unban"]
    ELSE h

\* list_panel_admin_deposit_review_rights and the loop that builds `current`: the
\* rows with a positive telegram id, the owner's left out, each with its right.
CurrentRights ==
    [u \in {x \in Users : panel_admins[x] # "none" /\ x # OWNER_TELEGRAM_ID}
        |-> panel_admins[u] = "allowed"]

\* force_full_scan = chat_id != LAST_DEPOSIT_REVIEW_CHAT_ID
NeverFullScan(chat) == FALSE

ForceFullScan(chat) == chat # LAST_DEPOSIT_REVIEW_CHAT_ID

\* revoke_ids: the full scan's or the diff's, then `revoke_ids.update(removed_from_admins)`.
RevokeIdsWithoutRemoved(prev, cur, full) ==
    IF full
    THEN {u \in DOMAIN cur : ~cur[u]}
    ELSE {u \in DOMAIN cur : ~cur[u] /\ (u \notin DOMAIN prev \/ prev[u])}

RevokeIds(prev, cur, full) ==
    (IF full
     THEN {u \in DOMAIN cur : ~cur[u]}
     ELSE {u \in DOMAIN cur : ~cur[u] /\ (u \notin DOMAIN prev \/ prev[u])})
    \cup (DOMAIN prev \ DOMAIN cur)

\* restore_ids: the full scan's or the diff's.
RestoreIdsOfAnyChange(prev, cur, full) ==
    IF full
    THEN {u \in DOMAIN cur : cur[u]}
    ELSE {u \in DOMAIN cur : u \notin DOMAIN prev \/ prev[u] # cur[u]}

RestoreIds(prev, cur, full) ==
    IF full
    THEN {u \in DOMAIN cur : cur[u]}
    ELSE {u \in DOMAIN cur : cur[u] /\ (u \notin DOMAIN prev \/ ~prev[u])}

\* kick_deposit_review_chat_member and clear_deposit_review_chat_blacklist return
\* at once, without a Telegram call, `if chat_id <= 0 or telegram_id <= 0`.
MemberCallsMade(chat, u) == chat > 0 /\ u > 0

\* The pass returns to its caller: main goes on to start the loops, the access
\* loop tests stop_event and suspends in asyncio.wait.
SyncReturns ==
    /\ apc' = IF apc = "startup" THEN "wait" ELSE LoopTop
    /\ sync' = NoSync

\* A pass that would return without storing what it saw.
SyncPersistsNothing(cur, chat) ==
    /\ UNCHANGED <<LAST_DEPOSIT_REVIEW_ACCESS, LAST_DEPOSIT_REVIEW_CHAT_ID, loaded>>
    /\ SyncReturns

\* LAST_DEPOSIT_REVIEW_ACCESS = current; LAST_DEPOSIT_REVIEW_CHAT_ID = chat_id
SyncPersists(cur, chat) ==
    /\ LAST_DEPOSIT_REVIEW_ACCESS' = cur
    /\ LAST_DEPOSIT_REVIEW_CHAT_ID' = chat
    /\ loaded' = cur
    /\ SyncReturns

\* The two for loops go on: the pass suspends in the next Telegram call, or it
\* persists the snapshot and returns.
SyncContinues(cur, chat, revoke, restore) ==
    IF revoke # <<>> /\ MemberCallsMade(chat, Head(revoke))
    THEN /\ sync' = [pc |-> "kick", chat_id |-> chat, current |-> cur,
                     revoke |-> revoke, restore |-> restore]
         /\ UNCHANGED <<apc, LAST_DEPOSIT_REVIEW_ACCESS, LAST_DEPOSIT_REVIEW_CHAT_ID, loaded>>
    ELSE IF revoke = <<>> /\ restore # <<>> /\ MemberCallsMade(chat, Head(restore))
    THEN /\ sync' = [pc |-> "unban", chat_id |-> chat, current |-> cur,
                     revoke |-> <<>>, restore |-> restore]
         /\ UNCHANGED <<apc, LAST_DEPOSIT_REVIEW_ACCESS, LAST_DEPOSIT_REVIEW_CHAT_ID, loaded>>
    ELSE SyncPersists(cur, chat)

\* A pass that would keep the tracked state when no chat is configured.
SyncChatKeepsTracked ==
    /\ sync.pc = "chat"
    /\ LET id == ParseChatId(review_chats["deposit"])
       IN IF id = 0
          THEN /\ UNCHANGED <<LAST_DEPOSIT_REVIEW_ACCESS, LAST_DEPOSIT_REVIEW_CHAT_ID, loaded>>
               /\ SyncReturns
          ELSE /\ sync' = [sync EXCEPT !.pc = "rights", !.chat_id = id]
               /\ UNCHANGED <<apc, LAST_DEPOSIT_REVIEW_ACCESS, LAST_DEPOSIT_REVIEW_CHAT_ID, loaded>>
    /\ UNCHANGED access_hist
    /\ UNCHANGED <<storeVars, panel_admins, loopVars, listenerVars, ticketVars, handlerVars, access_event, join, now, env, histVars>>

\* get_deposit_review_chat_id() returns: with no chat configured the tracked state
\* is cleared and the pass returns, else it suspends in the rights query.
SyncChat ==
    /\ sync.pc = "chat"
    /\ LET id == ParseChatId(review_chats["deposit"])
       IN IF id = 0
          THEN /\ LAST_DEPOSIT_REVIEW_ACCESS' = <<>>
               /\ LAST_DEPOSIT_REVIEW_CHAT_ID' = 0
               /\ loaded' = <<>>
               /\ SyncReturns
          ELSE /\ sync' = [sync EXCEPT !.pc = "rights", !.chat_id = id]
               /\ UNCHANGED <<apc, LAST_DEPOSIT_REVIEW_ACCESS, LAST_DEPOSIT_REVIEW_CHAT_ID, loaded>>
    /\ UNCHANGED access_hist
    /\ UNCHANGED <<storeVars, panel_admins, loopVars, listenerVars, ticketVars, handlerVars, access_event, join, now, env, histVars>>

\* get_deposit_review_chat_id() or the rights query raises: the caller's
\* `except Exception` logs it, nothing is persisted.
SyncRaises ==
    /\ sync.pc \in {"chat", "rights"}
    /\ env > 0
    /\ env' = env - 1
    /\ SyncReturns
    /\ access_hist' = [access_hist EXCEPT !.failed = TRUE]
    /\ UNCHANGED <<storeVars, panel_admins, loopVars, listenerVars, ticketVars, handlerVars, access_event, LAST_DEPOSIT_REVIEW_ACCESS,
                   LAST_DEPOSIT_REVIEW_CHAT_ID, loaded, join, now, histVars>>

\* db.list_panel_admin_deposit_review_rights() returns: the sets are computed from
\* the snapshot in memory, and the for loops start.
SyncRights ==
    /\ sync.pc = "rights"
    /\ LET full == ForceFullScan(sync.chat_id)
           revoke == RevokeIds(LAST_DEPOSIT_REVIEW_ACCESS, CurrentRights, full)
           restore == RestoreIds(LAST_DEPOSIT_REVIEW_ACCESS, CurrentRights, full)
       IN SyncContinues(CurrentRights, sync.chat_id, Ascending(revoke), Ascending(restore))
    /\ access_hist' = IssuedBy([access_hist EXCEPT !.read = CurrentRights], sync')
    /\ UNCHANGED <<storeVars, panel_admins, loopVars, listenerVars, ticketVars, handlerVars, access_event, join, now, env, histVars>>

\* kick_deposit_review_chat_member has made its calls (ban, then unban), or one of
\* them failed and was logged: the next identity.
SyncKick ==
    /\ sync.pc = "kick"
    /\ SyncContinues(sync.current, sync.chat_id, Tail(sync.revoke), sync.restore)
    /\ access_hist' = IssuedBy(access_hist, sync')
    /\ UNCHANGED <<storeVars, panel_admins, loopVars, listenerVars, ticketVars, handlerVars, access_event, join, now, env, histVars>>

\* clear_deposit_review_chat_blacklist has made its call, or it failed and was
\* logged: the next identity.
SyncUnban ==
    /\ sync.pc = "unban"
    /\ SyncContinues(sync.current, sync.chat_id, <<>>, Tail(sync.restore))
    /\ access_hist' = IssuedBy(access_hist, sync')
    /\ UNCHANGED <<storeVars, panel_admins, loopVars, listenerVars, ticketVars, handlerVars, access_event, join, now, env, histVars>>

(* ----------------------- review_access_event_loop ---------------------- *)

\* A loop that would run one more pass when its wait returns with stop_event set.
AccessWakeStopRunsPass ==
    /\ apc = "wait"
    /\ stop_event
    /\ apc' = "sync"
    /\ sync' = [NoSync EXCEPT !.pc = "chat"]
    /\ UNCHANGED <<storeVars, panel_admins, loopVars, listenerVars, ticketVars, handlerVars, access_event, LAST_DEPOSIT_REVIEW_ACCESS,
                   LAST_DEPOSIT_REVIEW_CHAT_ID, loaded, access_hist, join, now, env, histVars>>

\* asyncio.wait returns with stop_event set: `break`.
AccessWakeStop ==
    /\ apc = "wait"
    /\ stop_event
    /\ apc' = "done"
    /\ UNCHANGED <<storeVars, panel_admins, loopVars, listenerVars, ticketVars, handlerVars, access_event, LAST_DEPOSIT_REVIEW_ACCESS,
                   LAST_DEPOSIT_REVIEW_CHAT_ID, loaded, access_hist, sync, join, now, env, histVars>>

\* asyncio.wait returns because access_event is set: it is cleared and a pass
\* starts (it suspends in get_deposit_review_chat_id).
AccessWakeSignal ==
    /\ apc = "wait"
    /\ ~stop_event
    /\ access_event
    /\ access_event' = FALSE
    /\ apc' = "sync"
    /\ sync' = [NoSync EXCEPT !.pc = "chat"]
    /\ access_hist' = [access_hist EXCEPT
                         !.failed = FALSE,
                         !.before = [access |-> LAST_DEPOSIT_REVIEW_ACCESS,
                                     chat |-> LAST_DEPOSIT_REVIEW_CHAT_ID]]
    /\ UNCHANGED <<storeVars, panel_admins, loopVars, listenerVars, ticketVars, handlerVars, LAST_DEPOSIT_REVIEW_ACCESS,
                   LAST_DEPOSIT_REVIEW_CHAT_ID, loaded, join, now, env, histVars>>

\* on_review_notify for a payload with the access-sync prefix:
\* loop.call_soon_threadsafe(access_event.set)
NotifyAccess ==
    /\ apc # "startup"
    /\ access_event' = TRUE
    /\ UNCHANGED <<storeVars, panel_admins, loopVars, listenerVars, ticketVars, handlerVars, LAST_DEPOSIT_REVIEW_ACCESS,
                   LAST_DEPOSIT_REVIEW_CHAT_ID, loaded, access_hist, apc, sync, join, now, env, histVars>>

(* -------------------------- on_chat_join_request ----------------------- *)

\* A check that would pass every admin of the panel, whatever the right.
IsAnyAdminAllowed(u, owner) ==
    IF u = 0 THEN FALSE
    ELSE IF owner # 0 /\ u = owner THEN TRUE
    ELSE panel_admins[u] # "none"

\* is_deposit_reviewer_allowed(telegram_id, owner_telegram_id)
IsDepositReviewerAllowed(u, owner) ==
    IF u = 0 THEN FALSE
    ELSE IF owner # 0 /\ u = owner THEN TRUE
    ELSE panel_admins[u] = "allowed"

\* LAST_DEPOSIT_REVIEW_ACCESS[telegram_id] = True / False
Remember(last, u, allowed) ==
    [x \in DOMAIN last \cup {u} |-> IF x = u THEN allowed ELSE last[x]]

\* Telegram delivers a join request of user u for chat c (aiogram runs polling,
\* and with it the handlers, once main has started the loops).
JoinRequest(u, c) ==
    /\ apc # "startup"
    /\ join.pc = "idle"
    /\ env > 0
    /\ env' = env - 1
    /\ join' = [NoJoin EXCEPT !.pc = "chat", !.chat = c, !.user = u]
    /\ UNCHANGED <<storeVars, panel_admins, loopVars, listenerVars, ticketVars, handlerVars, access_event, LAST_DEPOSIT_REVIEW_ACCESS,
                   LAST_DEPOSIT_REVIEW_CHAT_ID, loaded, access_hist, apc, sync, now, histVars>>

\* get_deposit_review_chat_id() returns: a request for another chat is left alone.
JoinChat ==
    /\ join.pc = "chat"
    /\ LET id == ParseChatId(review_chats["deposit"])
       IN join' = IF id = 0 \/ join.chat # id
                  THEN NoJoin
                  ELSE [join EXCEPT !.pc = "allowed", !.chat_id = id]
    /\ UNCHANGED <<storeVars, panel_admins, loopVars, listenerVars, ticketVars, handlerVars, access_event, LAST_DEPOSIT_REVIEW_ACCESS,
                   LAST_DEPOSIT_REVIEW_CHAT_ID, loaded, access_hist, apc, sync, now, env, histVars>>

\* db.is_deposit_reviewer_allowed returns: the handler suspends in
\* approve_chat_join_request or in decline_chat_join_request.
JoinAllowed ==
    /\ join.pc = "allowed"
    /\ LET allowed == IsDepositReviewerAllowed(join.user, OWNER_TELEGRAM_ID)
       IN join' = [join EXCEPT !.pc = "reply",
                               !.allowed = allowed,
                               !.call = IF allowed THEN "approve" ELSE "decline"]
    /\ UNCHANGED <<storeVars, panel_admins, loopVars, listenerVars, ticketVars, handlerVars, access_event, LAST_DEPOSIT_REVIEW_ACCESS,
                   LAST_DEPOSIT_REVIEW_CHAT_ID, loaded, access_hist, apc, sync, now, env, histVars>>

\* approve_chat_join_request / decline_chat_join_request returns or raises (logged):
\* the handler suspends in send_message.
JoinReply ==
    /\ join.pc = "reply"
    /\ join' = [join EXCEPT !.pc = "message"]
    /\ UNCHANGED <<storeVars, panel_admins, loopVars, listenerVars, ticketVars, handlerVars, access_event, LAST_DEPOSIT_REVIEW_ACCESS,
                   LAST_DEPOSIT_REVIEW_CHAT_ID, loaded, access_hist, apc, sync, now, env, histVars>>

\* send_message returns or raises (suppressed): the answer is written into the
\* snapshot in memory.
JoinMessage ==
    /\ join.pc = "message"
    /\ LAST_DEPOSIT_REVIEW_ACCESS' = Remember(LAST_DEPOSIT_REVIEW_ACCESS, join.user, join.allowed)
    /\ join' = NoJoin
    /\ UNCHANGED <<storeVars, panel_admins, loopVars, listenerVars, ticketVars, handlerVars, access_event,
                   LAST_DEPOSIT_REVIEW_CHAT_ID, loaded, access_hist, apc, sync, now, env, histVars>>

\* The owner panel grants, withdraws or removes an admin's deposit_review right
\* (the owner's own row stays as it is).
SetRight(u, r) ==
    /\ u # OWNER_TELEGRAM_ID
    /\ panel_admins[u] # r
    /\ panel_admins' = [panel_admins EXCEPT ![u] = r]
    /\ UNCHANGED <<storeVars, loopVars, listenerVars, ticketVars, handlerVars, access_event, LAST_DEPOSIT_REVIEW_ACCESS,
                   LAST_DEPOSIT_REVIEW_CHAT_ID, loaded, access_hist, apc, sync, join, now, env, histVars>>

(* ---------------------------- cmd_review_chat -------------------------- *)

\* Telegram delivers /review_chat from user u (polling runs once main has started
\* the loops): the handler suspends in db.is_deposit_reviewer_allowed.
CmdReviewChat(u) ==
    /\ apc # "startup"
    /\ review_chat_cmd.pc = "idle"
    /\ review_chat_cmd' = [NoCmd EXCEPT !.pc = "allowed", !.user = u]
    /\ UNCHANGED <<storeVars, loopVars, accessVars, listenerVars, ticketVars, callbackVars,
                   panelVars, now, env, histVars>>

\* is_deposit_reviewer_allowed returns: `if not allowed: return`, else the handler
\* suspends in its get_deposit_review_chat_id.
CmdAllowed ==
    /\ review_chat_cmd.pc = "allowed"
    /\ review_chat_cmd' = IF IsDepositReviewerAllowed(review_chat_cmd.user, OWNER_TELEGRAM_ID)
                          THEN [review_chat_cmd EXCEPT !.pc = "lookup"]
                          ELSE NoCmd
    /\ UNCHANGED <<storeVars, loopVars, accessVars, listenerVars, ticketVars, callbackVars,
                   panelVars, now, env, histVars>>

\* get_deposit_review_chat_id returns: with no chat the handler answers and returns,
\* else it calls sync_deposit_review_chat_access_once, which suspends in its own
\* get_deposit_review_chat_id.
CmdLookup ==
    /\ review_chat_cmd.pc = "lookup"
    /\ review_chat_cmd' = IF ParseChatId(review_chats["deposit"]) = 0
                          THEN NoCmd
                          ELSE [review_chat_cmd EXCEPT !.pc = "chat"]
    /\ UNCHANGED <<storeVars, loopVars, accessVars, listenerVars, ticketVars, callbackVars,
                   panelVars, now, env, histVars>>

\* The handler's pass persists and returns; what the handler does after it (the
\* invite link and the answer) touches none of the state kept here.
CmdSyncPersists(cur, chat) ==
    /\ LAST_DEPOSIT_REVIEW_ACCESS' = cur
    /\ LAST_DEPOSIT_REVIEW_CHAT_ID' = chat
    /\ loaded' = cur
    /\ review_chat_cmd' = NoCmd

\* The two for loops of the handler's pass go on.
CmdSyncContinues(cur, chat, revoke, restore) ==
    IF revoke # <<>> /\ MemberCallsMade(chat, Head(revoke))
    THEN /\ review_chat_cmd' = [review_chat_cmd EXCEPT !.pc = "kick", !.chat_id = chat,
                                                       !.current = cur, !.revoke = revoke,
                                                       !.restore = restore]
         /\ UNCHANGED <<LAST_DEPOSIT_REVIEW_ACCESS, LAST_DEPOSIT_REVIEW_CHAT_ID, loaded>>
    ELSE IF revoke = <<>> /\ restore # <<>> /\ MemberCallsMade(chat, Head(restore))
    THEN /\ review_chat_cmd' = [review_chat_cmd EXCEPT !.pc = "unban", !.chat_id = chat,
                                                       !.current = cur, !.revoke = <<>>,
                                                       !.restore = restore]
         /\ UNCHANGED <<LAST_DEPOSIT_REVIEW_ACCESS, LAST_DEPOSIT_REVIEW_CHAT_ID, loaded>>
    ELSE CmdSyncPersists(cur, chat)

\* The pass's get_deposit_review_chat_id returns.
CmdSyncChat ==
    /\ review_chat_cmd.pc = "chat"
    /\ LET id == ParseChatId(review_chats["deposit"])
       IN IF id = 0
          THEN /\ LAST_DEPOSIT_REVIEW_ACCESS' = <<>>
               /\ LAST_DEPOSIT_REVIEW_CHAT_ID' = 0
               /\ loaded' = <<>>
               /\ review_chat_cmd' = NoCmd
          ELSE /\ review_chat_cmd' = [review_chat_cmd EXCEPT !.pc = "rights", !.chat_id = id]
               /\ UNCHANGED <<LAST_DEPOSIT_REVIEW_ACCESS, LAST_DEPOSIT_REVIEW_CHAT_ID, loaded>>
    /\ UNCHANGED access_hist
    /\ UNCHANGED <<storeVars, loopVars, listenerVars, ticketVars, callbackVars, panelVars,
                   panel_admins, access_event,
                   apc, sync, join, now, env, histVars>>

\* The pass's rights query returns: the sets are computed from the snapshot in
\* memory as it is now.
CmdSyncRights ==
    /\ review_chat_cmd.pc = "rights"
    /\ LET full == ForceFullScan(review_chat_cmd.chat_id)
           revoke == RevokeIds(LAST_DEPOSIT_REVIEW_ACCESS, CurrentRights, full)
           restore == RestoreIds(LAST_DEPOSIT_REVIEW_ACCESS, CurrentRights, full)
       IN CmdSyncContinues(CurrentRights, review_chat_cmd.chat_id, Ascending(revoke),
                           Ascending(restore))
    /\ access_hist' = IssuedBy([access_hist EXCEPT !.read = CurrentRights], review_chat_cmd')
    /\ UNCHANGED <<storeVars, loopVars, listenerVars, ticketVars, callbackVars, panelVars,
                   panel_admins, access_event,
                   apc, sync, join, now, env, histVars>>

\* The pass's kick_deposit_review_chat_member returns.
CmdSyncKick ==
    /\ review_chat_cmd.pc = "kick"
    /\ CmdSyncContinues(review_chat_cmd.current, review_chat_cmd.chat_id,
                        Tail(review_chat_cmd.revoke), review_chat_cmd.restore)
    /\ access_hist' = IssuedBy(access_hist, review_chat_cmd')
    /\ UNCHANGED <<storeVars, loopVars, listenerVars, ticketVars, callbackVars, panelVars,
                   panel_admins, access_event,
                   apc, sync, join, now, env, histVars>>

\* The pass's clear_deposit_review_chat_blacklist returns.
CmdSyncUnban ==
    /\ review_chat_cmd.pc = "unban"
    /\ CmdSyncContinues(review_chat_cmd.current, review_chat_cmd.chat_id, <<>>,
                        Tail(review_chat_cmd.restore))
    /\ access_hist' = IssuedBy(access_hist, review_chat_cmd')
    /\ UNCHANGED <<storeVars, loopVars, listenerVars, ticketVars, callbackVars, panelVars,
                   panel_admins, access_event,
                   apc, sync, join, now, env, histVars>>

(* ------------------------- review_listener_loop ------------------------ *)

\* Database.listener_alive: a connection object that is not closed ("open": a
\* connection without the channel listener, "listening": with it).
ListenerAlive == listener_conn \in {"open", "listening"}

\* dispatch_event.set() and access_event.set() after a successful start_listener.
ConnectSignalsDispatchOnly == {"dispatch"}

ConnectSignals == {"dispatch", "access"}

\* update_review_health(listener_connected=True, listener_connected_at=..., last_listener_error="")
HealthConnected(h, t) ==
    [h EXCEPT !.listener_connected = TRUE,
              !.listener_connected_at = t,
              !.last_listener_error = ""]

\* update_review_health(listener_connected=False, last_listener_error_at=...,
\*                      last_listener_error="listener_connect_failed")
HealthListenerFailed(h, t) ==
    [h EXCEPT !.listener_connected = FALSE,
              !.last_listener_error_at = t,
              !.last_listener_error = "listener_connect_failed"]

\* A loop that would open a new connection on every iteration, whatever it holds.
ListenerNextAlwaysConnects == IF stop_event THEN "done" ELSE "connect"

\* `while not stop_event.is_set()`, `if not db.listener_alive()` and the start of
\* start_listener: where the loop suspends next.
ListenerNext ==
    IF stop_event THEN "done"
    ELSE IF ListenerAlive THEN "sleep"
    ELSE IF listener_conn # "none" THEN "close"
    ELSE "connect"

\* The loop's `except Exception`: the failure is recorded, then the loop suspends
\* in asyncio.wait_for(stop_event.wait(), timeout=max(3, REVIEW_LISTENER_RETRY_SECONDS)).
ListenerFails ==
    /\ listener_online' = FALSE
    /\ REVIEW_HEALTH' = HealthListenerFailed(REVIEW_HEALTH, now)
    /\ lpc' = "sleep"
    /\ UNCHANGED <<connects, raised, notices, dispatch_event, access_event>>

\* The task starts (main has created it after its first access sync), or the
\* wait_for returns (stop_event set, or the timeout): the next iteration.
ListenerWake ==
    /\ apc # "startup"
    /\ lpc \in {"start", "sleep"}
    /\ lpc' = ListenerNext
    /\ UNCHANGED <<storeVars, stop_event, dispatch_event, REVIEW_HEALTH, dpc, kind, chat_id,
                   batch, dispatched, deposit_sent, accessVars, listener_conn, listener_online,
                   connects, raised, notices, ticketVars, handlerVars, now, env, histVars>>

\* start_listener: the close() of the old connection returns or raises (`pass`);
\* self.listener_conn = None; it suspends in asyncpg.connect.
ListenerClose ==
    /\ lpc = "close"
    /\ listener_conn' = "none"
    /\ lpc' = "connect"
    /\ UNCHANGED <<storeVars, loopVars, accessVars, listener_online, connects, raised, notices,
                   ticketVars, handlerVars, now, env, histVars>>

\* asyncpg.connect returns: self.listener_conn is the new connection; it suspends
\* in add_listener.
ListenerConnect ==
    /\ lpc = "connect"
    /\ listener_conn' = "open"
    /\ lpc' = "add"
    /\ UNCHANGED <<storeVars, loopVars, accessVars, listener_online, connects, raised, notices,
                   ticketVars, handlerVars, now, env, histVars>>

\* asyncpg.connect raises: self.listener_conn stays None.
ListenerConnectRaise ==
    /\ lpc = "connect"
    /\ env > 0
    /\ env' = env - 1
    /\ ListenerFails
    /\ UNCHANGED <<storeVars, stop_event, dpc, kind, chat_id, batch, dispatched, deposit_sent,
                   panel_admins, LAST_DEPOSIT_REVIEW_ACCESS, LAST_DEPOSIT_REVIEW_CHAT_ID, loaded, access_hist,
                   apc, sync, join, listener_conn, ticketVars, handlerVars, now, histVars>>

\* add_listener returns: the subscription is established; the health record is
\* written and both signals are raised; the loop suspends in the wait_for.  On a
\* connection that has closed in the meantime add_listener raises instead.
ListenerSubscribe ==
    /\ lpc = "add"
    /\ IF listener_conn = "open"
       THEN /\ listener_conn' = "listening"
            /\ listener_online' = TRUE
            /\ REVIEW_HEALTH' = HealthConnected(REVIEW_HEALTH, now)
            /\ dispatch_event' = (dispatch_event \/ "dispatch" \in ConnectSignals)
            /\ access_event' = (access_event \/ "access" \in ConnectSignals)
            /\ connects' = connects + 1
            /\ raised' = [e \in Events |-> IF e \in ConnectSignals THEN raised[e] + 1
                                           ELSE raised[e]]
            /\ UNCHANGED notices
            /\ lpc' = "sleep"
       ELSE /\ ListenerFails
            /\ UNCHANGED listener_conn
    /\ UNCHANGED <<storeVars, stop_event, dpc, kind, chat_id, batch, dispatched, deposit_sent,
                   panel_admins, LAST_DEPOSIT_REVIEW_ACCESS, LAST_DEPOSIT_REVIEW_CHAT_ID, loaded, access_hist,
                   apc, sync, join, ticketVars, handlerVars, now, env, histVars>>

\* add_listener raises: self.listener_conn keeps the connection that was opened.
ListenerSubscribeRaise ==
    /\ lpc = "add"
    /\ env > 0
    /\ env' = env - 1
    /\ ListenerFails
    /\ UNCHANGED <<storeVars, stop_event, dpc, kind, chat_id, batch, dispatched, deposit_sent,
                   panel_admins, LAST_DEPOSIT_REVIEW_ACCESS, LAST_DEPOSIT_REVIEW_CHAT_ID, loaded, access_hist,
                   apc, sync, join, listener_conn, ticketVars, handlerVars, now, histVars>>

\* Text is a sequence of code points.  The payloads a NOTIFY can carry here:
\* "", "  ", "7", "access_sync", "access_sync:", "access_sync:7", "ACCESS_sync:7",
\* " access_sync:7 ", "xaccess_sync:" and "7 access_sync:".
Payloads ==
    {<<>>,
     <<32, 32>>,
     <<55>>,
     <<97, 99, 99, 101, 115, 115, 95, 115, 121, 110, 99>>,
     <<97, 99, 99, 101, 115, 115, 95, 115, 121, 110, 99, 58>>,
     <<97, 99, 99, 101, 115, 115, 95, 115, 121, 110, 99, 58, 55>>,
     <<65, 67, 67, 69, 83, 83, 95, 115, 121, 110, 99, 58, 55>>,
     <<32, 97, 99, 99, 101, 115, 115, 95, 115, 121, 110, 99, 58, 55, 32>>,
     <<120, 97, 99, 99, 101, 115, 115, 95, 115, 121, 110, 99, 58>>,
     <<55, 32, 97, 99, 99, 101, 115, 115, 95, 115, 121, 110, 99, 58>>}

\* ACCESS_SYNC_NOTIFY_PREFIX = "access_sync:"
ACCESS_SYNC_NOTIFY_PREFIX == <<97, 99, 99, 101, 115, 115, 95, 115, 121, 110, 99, 58>>

\* The characters str.strip() removes (space, tab, line feed, carriage return, ...).
IsSpace(c) == c \in {9, 10, 11, 12, 13, 32}

\* str.strip()
RECURSIVE StripLeft(_)
StripLeft(s) ==
    IF s # <<>> /\ IsSpace(Head(s)) THEN StripLeft(Tail(s)) ELSE s

RECURSIVE StripRight(_)
StripRight(s) ==
    IF s # <<>> /\ IsSpace(s[Len(s)]) THEN StripRight(SubSeq(s, 1, Len(s) - 1)) ELSE s

Strip(s) == StripRight(StripLeft(s))

\* str.lower() (on ASCII text)
LowerNothing(s) == s

Lower(s) == [n \in DOMAIN s |-> IF s[n] \in 65..90 THEN s[n] + 32 ELSE s[n]]

\* str.startswith
StartsWith(s, prefix) ==
    /\ Len(s) >= Len(prefix)
    /\ SubSeq(s, 1, Len(prefix)) = prefix

\* payload_text = str(payload or "").strip()
PayloadText(payload) == Strip(payload)

\* The signal on_review_notify raises for a payload.
NotifySignal(payload) ==
    IF StartsWith(Lower(PayloadText(payload)), ACCESS_SYNC_NOTIFY_PREFIX)
    THEN "access"
    ELSE "dispatch"

\* The listening connection delivers a NOTIFY: on_review_notify stamps the health
\* record and sets one of the two events on the loop.
OnReviewNotify(payload) ==
    /\ listener_conn = "listening"
    /\ notices.count < MaxNotes
    /\ notices' = [count |-> notices.count + 1, last |-> payload]
    /\ REVIEW_HEALTH' = [REVIEW_HEALTH EXCEPT !.last_notify_at = now,
                                              !.last_notify_payload = Take(PayloadText(payload), 180)]
    /\ access_event' = (access_event \/ NotifySignal(payload) = "access")
    /\ dispatch_event' = (dispatch_event \/ NotifySignal(payload) = "dispatch")
    /\ UNCHANGED <<storeVars, stop_event, dpc, kind, chat_id, batch, dispatched, deposit_sent,
                   panel_admins, LAST_DEPOSIT_REVIEW_ACCESS, LAST_DEPOSIT_REVIEW_CHAT_ID, loaded, access_hist,
                   apc, sync, join, lpc, listener_conn, listener_online, connects, raised,
                   ticketVars, handlerVars, now, env, histVars>>

\* The listener's connection drops: is_closed() is true from now on.
ListenerDrop ==
    /\ ListenerAlive
    /\ env > 0
    /\ env' = env - 1
    /\ listener_conn' = "closed"
    /\ UNCHANGED <<storeVars, loopVars, accessVars, lpc, listener_online, connects, raised, notices,
                   ticketVars, handlerVars, now, histVars>>

(* ---------------- callback_deposit_review, callback_kyc_review --------- *)

\* Callback data that Telegram can deliver (the text's code points):
\*   "dep:approve:7"
\*   "dep:reject:7"
\*   "dep:APPROVE: 7 "
\*   "dep:approve:7:8"
\*   "dep:approve:"
\*   "dep:drop:7"
\*   "dep:approve"
\*   "kyc:approve:7"
\*   "kyc:reject: "
\*   "kyc:x:7"
CallbackData ==
    {<<100, 101, 112, 58, 97, 112, 112, 114, 111, 118, 101, 58, 55>>,
     <<100, 101, 112, 58, 114, 101, 106, 101, 99, 116, 58, 55>>,
     <<100, 101, 112, 58, 65, 80, 80, 82, 79, 86, 69, 58, 32, 55, 32>>,
     <<100, 101, 112, 58, 97, 112, 112, 114, 111, 118, 101, 58, 55, 58, 56>>,
     <<100, 101, 112, 58, 97, 112, 112, 114, 111, 118, 101, 58>>,
     <<100, 101, 112, 58, 100, 114, 111, 112, 58, 55>>,
     <<100, 101, 112, 58, 97, 112, 112, 114, 111, 118, 101>>,
     <<107, 121, 99, 58, 97, 112, 112, 114, 111, 118, 101, 58, 55>>,
     <<107, 121, 99, 58, 114, 101, 106, 101, 99, 116, 58, 32>>,
     <<107, 121, 99, 58, 120, 58, 55>>}

\* The `prefix` argument of parse_review_callback_data: "dep" and "kyc".
CallbackPrefix(k) == IF k = "deposit" THEN <<100, 101, 112>> ELSE <<107, 121, 99>>

\* The literals "approve" and "reject".
ReviewActions == {<<97, 112, 112, 114, 111, 118, 101>>, <<114, 101, 106, 101, 99, 116>>}

\* The index of the first ":" of s, or 0.
RECURSIVE FirstColonFrom(_, _)
FirstColonFrom(s, n) ==
    IF n > Len(s) THEN 0 ELSE IF s[n] = 58 THEN n ELSE FirstColonFrom(s, n + 1)

\* str.split(":", 2): at most three parts.
SplitColon2(s) ==
    LET i == FirstColonFrom(s, 1)
    IN IF i = 0 THEN <<s>>
       ELSE LET rest == SubSeq(s, i + 1, Len(s))
                j == FirstColonFrom(rest, 1)
            IN IF j = 0 THEN <<SubSeq(s, 1, i - 1), rest>>
               ELSE <<SubSeq(s, 1, i - 1), SubSeq(rest, 1, j - 1),
                      SubSeq(rest, j + 1, Len(rest))>>

\* The (None, None) that parse_review_callback_data returns for data it rejects.
NoneParsed == [action |-> <<>>, request_id |-> <<>>]

\* A parser that would take any action word.
ParseReviewCallbackDataAnyAction(raw, prefix) ==
    LET parts == SplitColon2(Strip(raw))
    IN IF Len(parts) # 3 THEN NoneParsed
       ELSE IF parts[1] # prefix THEN NoneParsed
       ELSE LET action == Lower(Strip(parts[2]))
                id == Strip(parts[3])
            IN IF action = <<>> \/ id = <<>> THEN NoneParsed
               ELSE [action |-> action, request_id |-> id]

\* parse_review_callback_data(raw, prefix)
ParseReviewCallbackData(raw, prefix) ==
    LET parts == SplitColon2(Strip(raw))
    IN IF Len(parts) # 3 THEN NoneParsed
       ELSE IF parts[1] # prefix THEN NoneParsed
       ELSE LET action == Lower(Strip(parts[2]))
                id == Strip(parts[3])
            IN IF action \notin ReviewActions \/ id = <<>> THEN NoneParsed
               ELSE [action |-> action, request_id |-> id]

\* is_kyc_reviewer_allowed(telegram_id, owner_telegram_id)
IsKycReviewerAllowed(u, owner) ==
    IF u = 0 THEN FALSE
    ELSE IF owner # 0 /\ u = owner THEN TRUE
    ELSE u \in kyc_reviewers

\* is_deposit_reviewer_allowed or is_kyc_reviewer_allowed, by the handler.
IsReviewerAllowed(k, u) ==
    IF k = "deposit" THEN IsDepositReviewerAllowed(u, OWNER_TELEGRAM_ID)
    ELSE IsKycReviewerAllowed(u, OWNER_TELEGRAM_ID)

\* A user presses a button: Telegram delivers data `raw` from user u for a message
\* in chat c (0: no message), and the router hands it to the handler of kind k
\* whose filter F.data.startswith matches.  Data that does not parse, or a query
\* without message, is answered and dropped; else the handler suspends in
\* db.get_review_chats.
CallbackReview(k, raw, c, u) ==
    /\ apc # "startup"
    /\ decision.pc = "idle"
    /\ StartsWith(raw, CallbackPrefix(k) \o <<58>>)
    /\ LET parsed == ParseReviewCallbackData(raw, CallbackPrefix(k))
       IN decision' = IF parsed = NoneParsed \/ c = 0
                      THEN NoDecision
                      ELSE [NoDecision EXCEPT !.pc = "chats", !.kind = k, !.data = raw,
                                              !.chat = c, !.user = u,
                                              !.action = parsed.action,
                                              !.request_id = parsed.request_id]
    /\ UNCHANGED <<storeVars, loopVars, accessVars, listenerVars, ticketVars, review_chat_cmd,
                   kyc_reviewers, panelVars, now, env, histVars>>

\* db.get_review_chats returns: a message in another chat, or no chat configured,
\* is answered "Wrong ... review chat"; else the handler suspends in the rights check.
DecisionChats ==
    /\ decision.pc = "chats"
    /\ LET id == ParseChatId(review_chats[decision.kind])
       IN decision' = IF id = 0 \/ decision.chat # id
                      THEN NoDecision
                      ELSE [decision EXCEPT !.pc = "allowed"]
    /\ UNCHANGED <<storeVars, loopVars, accessVars, listenerVars, ticketVars, review_chat_cmd,
                   kyc_reviewers, panelVars, now, env, histVars>>

\* is_*_reviewer_allowed returns: a user without the right is answered and dropped;
\* else the handler suspends in the early safe_callback_answer.
DecisionAllowed ==
    /\ decision.pc = "allowed"
    /\ decision' = IF IsReviewerAllowed(decision.kind, decision.user)
                   THEN [decision EXCEPT !.pc = "ack"]
                   ELSE NoDecision
    /\ UNCHANGED <<storeVars, loopVars, accessVars, listenerVars, ticketVars, review_chat_cmd,
                   kyc_reviewers, panelVars, now, env, histVars>>

\* safe_callback_answer returns: internal_post sends the decision to the API.
DecisionPost ==
    /\ decision.pc = "ack"
    /\ decision' = [decision EXCEPT !.pc = "post", !.called = TRUE]
    /\ UNCHANGED <<storeVars, loopVars, accessVars, listenerVars, ticketVars, review_chat_cmd,
                   kyc_reviewers, panelVars, now, env, histVars>>

\* internal_post returns: any status but 200 is answered with the error; on 200 the
\* handler suspends in append_review_result_to_message (message.edit_caption).
DecisionReply(status) ==
    /\ decision.pc = "post"
    /\ decision' = IF status = 200
                   THEN [decision EXCEPT !.pc = "append", !.edited = TRUE]
                   ELSE NoDecision
    /\ UNCHANGED <<storeVars, loopVars, accessVars, listenerVars, ticketVars, review_chat_cmd,
                   kyc_reviewers, panelVars, now, env, histVars>>

\* edit_caption returns or raises (suppressed); the user notification and the last
\* answer touch none of the state kept here.
DecisionDone ==
    /\ decision.pc = "append"
    /\ decision' = NoDecision
    /\ UNCHANGED <<storeVars, loopVars, accessVars, listenerVars, ticketVars, review_chat_cmd,
                   kyc_reviewers, panelVars, now, env, histVars>>

\* The owner panel grants or withdraws an admin's kyc_review right.
SetKycRight(u, granted) ==
    /\ u # OWNER_TELEGRAM_ID
    /\ (u \in kyc_reviewers) # granted
    /\ kyc_reviewers' = IF granted THEN kyc_reviewers \cup {u} ELSE kyc_reviewers \ {u}
    /\ UNCHANGED <<storeVars, loopVars, accessVars, listenerVars, ticketVars, review_chat_cmd,
                   decision, panelVars, now, env, histVars>>

(* ------- cmd_getownerpanel, cmd_getadminpanel, callback_panel_token_actions ------ *)

\* is_panel_admin(telegram_id): the user has a row in panel_admins.
IsPanelAdmin(u) == panel_admins[u] # "none"

\* The key of the rows that handler h works on.
PanelKey(h) == <<panel[h].type, panel[h].user>>

\* Telegram delivers /getownerpanel (t = "owner") or /getadminpanel (t = "admin") from
\* user u.  The owner command of anybody else returns at once; the owner's suspends in
\* run_token_cleanup_once; the admin command suspends in db.is_panel_admin.
PanelCommand(h, t, u) ==
    /\ apc # "startup"
    /\ panel[h].pc = "idle"
    /\ t = "owner" => u = OWNER_TELEGRAM_ID
    /\ panel' = [panel EXCEPT ![h] = [pc |-> IF t = "owner" THEN "cleanup" ELSE "is_admin",
                                       action |-> "get", type |-> t, user |-> u]]
    /\ UNCHANGED tokens
    /\ UNCHANGED <<storeVars, loopVars, accessVars, listenerVars, ticketVars, review_chat_cmd,
                   callbackVars, now, env, histVars>>

\* A user presses the regenerate ("regen") or delete button of a panel message: the
\* callback names the token type and the user the message was made for.  An owner
\* button pressed by, or made for, anybody but the owner, and an admin button
\* pressed by another user, is answered and dropped; the admin button suspends in
\* db.is_panel_admin, the owner's in the early safe_callback_answer.
PanelCallback(h, a, t, target, caller) ==
    /\ apc # "startup"
    /\ panel[h].pc = "idle"
    /\ IF t = "owner"
       THEN caller = OWNER_TELEGRAM_ID /\ target = OWNER_TELEGRAM_ID
       ELSE caller = target
    /\ panel' = [panel EXCEPT ![h] = [pc |-> IF t = "owner" THEN "ack" ELSE "is_admin",
                                       action |-> a, type |-> t, user |-> target]]
    /\ UNCHANGED tokens
    /\ UNCHANGED <<storeVars, loopVars, accessVars, listenerVars, ticketVars, review_chat_cmd,
                   callbackVars, now, env, histVars>>

\* db.is_panel_admin returns: a user without a row is dropped.
PanelIsAdmin(h) ==
    /\ panel[h].pc = "is_admin"
    /\ panel' = [panel EXCEPT ![h] =
                    IF ~IsPanelAdmin(panel[h].user) THEN NoPanel
                    ELSE [panel[h] EXCEPT !.pc = IF panel[h].action = "get" THEN "cleanup"
                                                 ELSE "ack"]]
    /\ UNCHANGED tokens
    /\ UNCHANGED <<storeVars, loopVars, accessVars, listenerVars, ticketVars, review_chat_cmd,
                   callbackVars, now, env, histVars>>

\* run_token_cleanup_once returns: delete_expired_tokens has removed the expired
\* rows of every user, or has raised (logged); the command suspends in
\* db.get_active_token.
PanelCleanup(h, raises) ==
    /\ panel[h].pc = "cleanup"
    /\ tokens' = IF raises THEN tokens
                 ELSE [k \in TokenKeys |-> [tokens[k] EXCEPT !.expired = 0]]
    /\ panel' = [panel EXCEPT ![h].pc = "active"]
    /\ UNCHANGED <<storeVars, loopVars, accessVars, listenerVars, ticketVars, review_chat_cmd,
                   callbackVars, now, env, histVars>>

\* db.get_active_token returns: with an unexpired row the command answers with that
\* token; without, it suspends in db.create_token.
PanelActive(h) ==
    /\ panel[h].pc = "active"
    /\ panel' = [panel EXCEPT ![h] = IF tokens[PanelKey(h)].active > 0 THEN NoPanel
                                      ELSE [panel[h] EXCEPT !.pc = "create"]]
    /\ UNCHANGED tokens
    /\ UNCHANGED <<storeVars, loopVars, accessVars, listenerVars, ticketVars, review_chat_cmd,
                   callbackVars, now, env, histVars>>

\* The button's early safe_callback_answer returns: the handler suspends in
\* db.delete_user_tokens.
PanelAck(h) ==
    /\ panel[h].pc = "ack"
    /\ panel' = [panel EXCEPT ![h].pc = "delete"]
    /\ UNCHANGED tokens
    /\ UNCHANGED <<storeVars, loopVars, accessVars, listenerVars, ticketVars, review_chat_cmd,
                   callbackVars, now, env, histVars>>

\* db.delete_user_tokens returns: every row of the type and user is gone.  The delete
\* button is done; the regenerate button suspends in db.create_token.
PanelDelete(h) ==
    /\ panel[h].pc = "delete"
    /\ tokens' = [tokens EXCEPT ![PanelKey(h)] = NoTokens]
    /\ panel' = [panel EXCEPT ![h] = IF panel[h].action = "delete" THEN NoPanel
                                      ELSE [panel[h] EXCEPT !.pc = "create"]]
    /\ UNCHANGED <<storeVars, loopVars, accessVars, listenerVars, ticketVars, review_chat_cmd,
                   callbackVars, now, env, histVars>>

\* db.create_token returns: a row with a fresh token, valid for at least 60 seconds,
\* is inserted; the messages that follow touch none of the state kept here.
PanelCreate(h) ==
    /\ panel[h].pc = "create"
    /\ tokens[PanelKey(h)].active + tokens[PanelKey(h)].expired < MaxTokens
    /\ tokens' = [tokens EXCEPT ![PanelKey(h)].active = @ + 1]
    /\ panel' = [panel EXCEPT ![h] = NoPanel]
    /\ UNCHANGED <<storeVars, loopVars, accessVars, listenerVars, ticketVars, review_chat_cmd,
                   callbackVars, now, env, histVars>>

\* Time passes the expires_at of one unexpired row.
TokenExpires(k) ==
    /\ tokens[k].active > 0
    /\ tokens' = [tokens EXCEPT ![k] = [active |-> @.active - 1, expired |-> @.expired + 1]]
    /\ UNCHANGED panel
    /\ UNCHANGED <<storeVars, loopVars, accessVars, listenerVars, ticketVars, review_chat_cmd,
                   callbackVars, now, env, histVars>>

(* ---------------------- the store's other clients ---------------------- *)

\* A producer inserts the next request (created_at follows the ids), pending and
\* unclaimed, with or (an environment event) without a proof blob.
Produce(k, blob) ==
    /\ blob \/ env > 0
    /\ env' = IF blob THEN env ELSE env - 1
    /\ \E i \in Ids :
          /\ items[i].status = "none"
          /\ \A j \in Ids : j < i => items[j].status # "none"
          /\ items' = [items EXCEPT ![i] = [kind |-> k, status |-> "pending",
                                            review_message_id |-> 0, proof_blob |-> blob]]
    /\ UNCHANGED <<review_chats, loopVars, now, histVars>>
    /\ UNCHANGED <<accessVars, listenerVars, ticketVars, handlerVars>>

\* Another claimant (a second bot process, a manual re-run) runs the same
\* conditional UPDATE for a message of its own.
ExternalClaim(i) ==
    /\ env > 0
    /\ env' = env - 1
    /\ items[i].status # "none"
    /\ LET claimed == MarkDispatched(i, ForeignMessage) # items
       IN /\ items' = MarkDispatched(i, ForeignMessage)
          /\ claimOk' = [claimOk EXCEPT ![i] = IF claimed THEN @ + 1 ELSE @]
          /\ claimNo' = [claimNo EXCEPT ![i] = @ \/ ~claimed]
    /\ UNCHANGED <<review_chats, loopVars, now, published, pass>>
    /\ UNCHANGED <<accessVars, listenerVars, ticketVars, handlerVars>>

\* The backend decides a request: it is no longer pending.
Review(i) ==
    /\ env > 0
    /\ env' = env - 1
    /\ items[i].status = "pending"
    /\ items' = [items EXCEPT ![i].status = "reviewed"]
    /\ UNCHANGED <<review_chats, loopVars, now, histVars>>
    /\ UNCHANGED <<accessVars, listenerVars, ticketVars, handlerVars>>

\* Upstream repairs a request that had no proof blob.
Repair(i) ==
    /\ items[i].status = "pending"
    /\ ~items[i].proof_blob
    /\ items' = [items EXCEPT ![i].proof_blob = TRUE]
    /\ UNCHANGED <<review_chats, loopVars, now, env, histVars>>
    /\ UNCHANGED <<accessVars, listenerVars, ticketVars, handlerVars>>

\* The owner panel changes a review chat id.
SetReviewChat(k, raw) ==
    /\ env > 0
    /\ env' = env - 1
    /\ review_chats[k] # raw
    /\ review_chats' = [review_chats EXCEPT ![k] = raw]
    /\ UNCHANGED <<items, loopVars, accessVars, listenerVars, ticketVars, handlerVars, now, histVars>>

(* ------------------------- the rest of the process --------------------- *)

\* on_review_notify for a payload without the access-sync prefix:
\* loop.call_soon_threadsafe(dispatch_event.set)
NotifyDispatch ==
    /\ dpc # "start"
    /\ dispatch_event' = TRUE
    /\ UNCHANGED <<storeVars, stop_event, REVIEW_HEALTH, dpc, kind, chat_id, batch, dispatched,
                   deposit_sent, now, env, histVars>>
    /\ UNCHANGED <<accessVars, listenerVars, ticketVars, handlerVars>>

\* trigger_shutdown: BOT_STOP_EVENT.set()
TriggerShutdown ==
    /\ dpc # "start" \/ apc # "startup"
    /\ ~stop_event
    /\ env > 0
    /\ env' = env - 1
    /\ stop_event' = TRUE
    /\ UNCHANGED <<storeVars, dispatch_event, REVIEW_HEALTH, dpc, kind, chat_id, batch,
                   dispatched, deposit_sent, accessVars, listenerVars, ticketVars, handlerVars, now,
                   histVars>>

\* main()'s `finally`, once polling has ended after a shutdown request:
\* stop_event.set() and cancel() of the loop tasks, which raises CancelledError in
\* each at the await it is suspended in (`except Exception` does not catch it).  An
\* UPDATE that was in flight has been applied or not.
MainFinally ==
    /\ stop_event
    /\ dpc # "done" \/ apc # "done" \/ lpc # "done"
    /\ dpc' = "done"
    /\ kind' = "none"
    /\ chat_id' = 0
    /\ batch' = <<>>
    /\ dispatched' = 0
    /\ deposit_sent' = 0
    /\ apc' = "done"
    /\ sync' = NoSync
    /\ lpc' = "done"
    /\ \E applied \in BOOLEAN :
          items' = IF dpc = "claim" /\ applied
                   THEN MarkDispatched(Head(batch).id, published[Head(batch).id])
                   ELSE items
    /\ UNCHANGED <<review_chats, panel_admins, stop_event, dispatch_event, REVIEW_HEALTH,
                   access_event, LAST_DEPOSIT_REVIEW_ACCESS, LAST_DEPOSIT_REVIEW_CHAT_ID, loaded, access_hist, join,
                   listener_conn, listener_online, connects, raised, notices, ticketVars, handlerVars, now, env,
                   histVars>>

\* A process whose tracked state would outlive it.
RestartKeepsTracked ==
    /\ env > 0
    /\ env' = env - 1
    /\ dpc # "start" \/ apc # "startup"
    /\ stop_event' = FALSE
    /\ dispatch_event' = FALSE
    /\ REVIEW_HEALTH' = InitialHealth
    /\ dpc' = "start"
    /\ kind' = "none"
    /\ chat_id' = 0
    /\ batch' = <<>>
    /\ dispatched' = 0
    /\ deposit_sent' = 0
    /\ pass' = NoPass
    /\ access_event' = FALSE
    /\ UNCHANGED <<LAST_DEPOSIT_REVIEW_ACCESS, LAST_DEPOSIT_REVIEW_CHAT_ID, loaded>>
    /\ access_hist' = NoAccessHist
    /\ apc' = "startup"
    /\ sync' = [NoSync EXCEPT !.pc = "chat"]
    /\ join' = NoJoin
    /\ review_chat_cmd' = NoCmd
    /\ decision' = NoDecision
    /\ panel' = [h \in Handlers |-> NoPanel]
    /\ UNCHANGED <<kyc_reviewers, tokens>>
    /\ lpc' = "start"
    /\ listener_conn' = "none"
    /\ listener_online' = FALSE
    /\ UNCHANGED <<storeVars, panel_admins, connects, raised, notices, ticketVars, now, published,
                   claimOk, claimNo>>

\* The process dies (at any point) and is started again: main() builds new events,
\* the module-level state is as the module creates it, the store is as it was.
Restart ==
    /\ env > 0
    /\ env' = env - 1
    /\ dpc # "start" \/ apc # "startup"
    /\ stop_event' = FALSE
    /\ dispatch_event' = FALSE
    /\ REVIEW_HEALTH' = InitialHealth
    /\ dpc' = "start"
    /\ kind' = "none"
    /\ chat_id' = 0
    /\ batch' = <<>>
    /\ dispatched' = 0
    /\ deposit_sent' = 0
    /\ pass' = NoPass
    /\ access_event' = FALSE
    /\ LAST_DEPOSIT_REVIEW_ACCESS' = <<>>
    /\ LAST_DEPOSIT_REVIEW_CHAT_ID' = 0
    /\ loaded' = <<>>
    /\ access_hist' = NoAccessHist
    /\ apc' = "startup"
    /\ sync' = [NoSync EXCEPT !.pc = "chat"]
    /\ join' = NoJoin
    /\ review_chat_cmd' = NoCmd
    /\ decision' = NoDecision
    /\ panel' = [h \in Handlers |-> NoPanel]
    /\ UNCHANGED <<kyc_reviewers, tokens>>
    /\ lpc' = "start"
    /\ listener_conn' = "none"
    /\ listener_online' = FALSE
    /\ UNCHANGED <<storeVars, panel_admins, connects, raised, notices, ticketVars, now, published,
                   claimOk, claimNo>>

(* ---------------------------- specification ---------------------------- *)

\* main() has connected and awaits its first sync_deposit_review_chat_access_once;
\* the module-level state is as the module creates it.
InitTasks ==
    /\ access_event = FALSE
    /\ LAST_DEPOSIT_REVIEW_ACCESS = <<>>
    /\ LAST_DEPOSIT_REVIEW_CHAT_ID = 0
    /\ loaded = <<>>
    /\ access_hist = NoAccessHist
    /\ apc = "startup"
    /\ sync = [NoSync EXCEPT !.pc = "chat"]
    /\ join = NoJoin
    /\ review_chat_cmd = NoCmd
    /\ decision = NoDecision
    /\ panel = [h \in Handlers |-> NoPanel]
    /\ stop_event = FALSE
    /\ dispatch_event = FALSE
    /\ REVIEW_HEALTH = InitialHealth
    /\ dpc = "start"
    /\ kind = "none"
    /\ chat_id = 0
    /\ batch = <<>>
    /\ dispatched = 0
    /\ deposit_sent = 0
    /\ now = 0
    /\ env = MaxEnv
    /\ published = [i \in Ids |-> 0]
    /\ claimOk = [i \in Ids |-> 0]
    /\ claimNo = [i \in Ids |-> FALSE]
    /\ pass = NoPass
    /\ lpc = "start"
    /\ listener_conn = "none"
    /\ listener_online = FALSE
    /\ connects = 0
    /\ raised = [e \in Events |-> 0]
    /\ notices = [count |-> 0, last |-> <<>>]
    /\ ticket_kind = "none"
    /\ ticket_no = 0
    /\ request_id = <<>>
    /\ ticket = <<>>

\* The settings and the panel's admin table of a fresh installation.
InitProcess ==
    /\ review_chats = [k \in Kinds |-> "-1001"]
    /\ kyc_reviewers = {}
    /\ tokens = [k \in TokenKeys |-> NoTokens]
    /\ panel_admins = [u \in Users |-> IF u = OWNER_TELEGRAM_ID THEN "allowed" ELSE "none"]
    /\ InitTasks

\* The bot starts on a store without review requests.
Init ==
    /\ items = [i \in Ids |-> NoItem]
    /\ InitProcess

\* The bot starts on a store that holds MaxItems requests, all pending and
\* unclaimed, of either kind, with or without proof blob.
InitBacklog ==
    /\ items \in [Ids -> {[kind |-> k, status |-> "pending", review_message_id |-> 0,
                           proof_blob |-> b] : k \in Kinds, b \in BOOLEAN}]
    /\ InitProcess

DispatchLoop ==
    \/ DispatchLoopStart
    \/ DispatchWakeStop
    \/ DispatchWakeSignal
    \/ DispatchWakeTimeout
    \/ DispatchChats
    \/ DispatchFetch
    \/ DispatchPublish
    \/ DispatchClaim

DispatchFaults ==
    \/ DispatchChatsRaise
    \/ DispatchFetchRaise
    \/ DispatchPublishRaise
    \/ DispatchClaimRaise

StoreClients ==
    \/ \E k \in Kinds, blob \in BOOLEAN : Produce(k, blob)
    \/ \E i \in Ids : ExternalClaim(i)
    \/ \E i \in Ids : Review(i)
    \/ \E i \in Ids : Repair(i)
    \/ \E k \in Kinds, raw \in {"", "abc", "0", "-1001"} : SetReviewChat(k, raw)

NextDispatch ==
    \/ DispatchLoop
    \/ DispatchFaults
    \/ StoreClients
    \/ NotifyDispatch
    \/ TriggerShutdown
    \/ MainFinally
    \/ Restart

SpecDispatch == Init /\ [][NextDispatch]_vars

\* The dispatch loop alone on a backlog, no faults and no other writers.  Every
\* await of the loop returns and asyncio.wait has a timeout: the loop always
\* takes its next step.
NextBacklog ==
    \/ DispatchLoop
    \/ TriggerShutdown
    \/ MainFinally

SpecBacklog == InitBacklog /\ [][NextBacklog]_vars /\ WF_vars(DispatchLoop)

AccessSync ==
    \/ SyncChat
    \/ SyncRights
    \/ SyncKick
    \/ SyncUnban
    \/ SyncRaises

AccessLoop ==
    \/ AccessWakeStop
    \/ AccessWakeSignal

JoinHandler ==
    \/ \E u \in Users, c \in {ParseChatId("-1001"), ParseChatId("1002")} : JoinRequest(u, c)
    \/ JoinChat
    \/ JoinAllowed
    \/ JoinReply
    \/ JoinMessage

NextAccess ==
    \/ AccessSync
    \/ AccessLoop
    \/ JoinHandler
    \/ NotifyAccess
    \/ \E u \in Users, r \in {"none", "allowed", "denied"} : SetRight(u, r)
    \/ \E raw \in {"", "-1001", "1002"} : SetReviewChat("deposit", raw)
    \/ TriggerShutdown
    \/ MainFinally
    \/ Restart

SpecAccess == Init /\ [][NextAccess]_vars

ListenerLoop ==
    \/ ListenerWake
    \/ ListenerClose
    \/ ListenerConnect
    \/ ListenerSubscribe

ListenerFaults ==
    \/ ListenerConnectRaise
    \/ ListenerSubscribeRaise
    \/ ListenerDrop

\* The three loops on a store without review requests and without admins: the
\* passes fetch nothing and revoke nothing.  Every await returns (or raises) and
\* every wait that has a timeout ends: each loop always takes its next step.
IdleDispatchLoop ==
    \/ DispatchLoopStart
    \/ DispatchWakeStop
    \/ DispatchWakeSignal
    \/ DispatchWakeTimeout
    \/ DispatchChats
    \/ DispatchFetch

IdleAccessLoop ==
    \/ SyncChat
    \/ SyncRights
    \/ AccessLoop

NextListener ==
    \/ ListenerLoop
    \/ ListenerFaults
    \/ IdleDispatchLoop
    \/ IdleAccessLoop
    \/ SyncRaises
    \/ TriggerShutdown
    \/ MainFinally

SpecListener ==
    /\ Init
    /\ [][NextListener]_vars
    /\ WF_vars(ListenerLoop)
    /\ WF_vars(IdleDispatchLoop)
    /\ WF_vars(IdleAccessLoop)

\* The bot starts on a store that holds one pending deposit request with its
\* proof, a deposit channel that is a plain chat id, and a panel with one admin
\* whose right is denied and, when there is a third user, one whose right is
\* granted.
InitLoops ==
    /\ items = [i \in Ids |-> IF i = 1
                               THEN [kind |-> "deposit", status |-> "pending",
                                     review_message_id |-> 0, proof_blob |-> TRUE]
                               ELSE NoItem]
    /\ review_chats = [k \in Kinds |-> IF k = "deposit" THEN "1002" ELSE "-1001"]
    /\ panel_admins = [u \in Users |-> IF u = OWNER_TELEGRAM_ID \/ u = 3 THEN "allowed"
                                       ELSE IF u = 2 THEN "denied" ELSE "none"]
    /\ kyc_reviewers = {}
    /\ tokens = [k \in TokenKeys |-> NoTokens]
    /\ InitTasks

\* The three loops with the failures of their calls, and shutdown.
NextLoops ==
    \/ DispatchLoop
    \/ DispatchFaults
    \/ AccessSync
    \/ AccessLoop
    \/ ListenerLoop
    \/ ListenerFaults
    \/ TriggerShutdown
    \/ MainFinally

SpecLoops == InitLoops /\ [][NextLoops]_vars

\* The listener and the two loops it wakes, with the notifications that arrive on
\* the channel, on a store without review requests and without admins.  Every
\* await returns: each loop always takes its next step.
NextNotify ==
    \/ \E payload \in Payloads : OnReviewNotify(payload)
    \/ ListenerLoop
    \/ ListenerDrop
    \/ IdleDispatchLoop
    \/ IdleAccessLoop
    \/ TriggerShutdown
    \/ MainFinally

SpecNotify ==
    /\ Init
    /\ [][NextNotify]_vars
    /\ WF_vars(ListenerLoop)
    /\ WF_vars(IdleDispatchLoop)
    /\ WF_vars(IdleAccessLoop)

ReviewChatCmd ==
    \/ \E u \in Users : CmdReviewChat(u)
    \/ CmdAllowed
    \/ CmdLookup
    \/ CmdSyncChat
    \/ CmdSyncRights
    \/ CmdSyncKick
    \/ CmdSyncUnban

\* The reconciliation passes of the access loop and of /review_chat side by side,
\* on a deposit channel that is a plain chat id, while the owner panel changes
\* the right of one admin and access notifications arrive.
NextPasses ==
    \/ AccessSync
    \/ AccessWakeSignal
    \/ NotifyAccess
    \/ ReviewChatCmd
    \/ \E r \in {"none", "allowed", "denied"} : SetRight(2, r)

SpecPasses == InitLoops /\ [][NextPasses]_vars

ReviewCallbacks ==
    \/ \E k \in Kinds, raw \in CallbackData, c \in {0, ParseChatId("-1001"), ParseChatId("1002")},
          u \in Users : CallbackReview(k, raw, c, u)
    \/ DecisionChats
    \/ DecisionAllowed
    \/ DecisionPost
    \/ \E status \in {200, 400} : DecisionReply(status)
    \/ DecisionDone

\* The review buttons, while the owner panel changes rights and review chats.
NextDecision ==
    \/ ReviewCallbacks
    \/ \E r \in {"none", "allowed", "denied"} : SetRight(2, r)
    \/ \E u \in Users, granted \in BOOLEAN : SetKycRight(u, granted)
    \/ \E k \in Kinds, raw \in {"", "-1001", "1002"} : SetReviewChat(k, raw)
    \/ AccessSync

SpecDecision == Init /\ [][NextDecision]_vars

PanelHandlers ==
    \E h \in Handlers :
        \/ \E t \in {"owner", "admin"}, u \in Users : PanelCommand(h, t, u)
        \/ \E a \in {"regen", "delete"}, t \in {"owner", "admin"}, target \in Users,
              caller \in Users : PanelCallback(h, a, t, target, caller)
        \/ PanelIsAdmin(h)
        \/ \E raises \in BOOLEAN : PanelCleanup(h, raises)
        \/ PanelActive(h)
        \/ PanelAck(h)
        \/ PanelDelete(h)
        \/ PanelCreate(h)

\* The panel commands and buttons, handled side by side once main has made its first
\* reconciliation pass (with the channel of Init the pass makes no membership call),
\* while tokens expire.
NextTokens ==
    \/ PanelHandlers
    \/ \E k \in TokenKeys : TokenExpires(k)
    \/ SyncChat
    \/ SyncRights
    \/ SyncRaises

SpecTokens == Init /\ [][NextTokens]_vars

\* The ticket encoder alone, called with every kind, ticket_no and request id.
NextTicket == \E k \in Kinds, no \in TicketSeeds, id \in RequestIds : RenderTicket(k, no, id)

SpecTicket == Init /\ [][NextTicket]_vars

TypeOK ==
    /\ dpc \in {"start", "wait", "chats", "fetch", "publish", "claim", "done"}
    /\ kind \in Kinds \cup {"none"}
    /\ env \in 0..MaxEnv
    /\ now \in 0..MaxClock
    /\ apc \in {"startup", "wait", "sync", "done"}
    /\ sync.pc \in {"idle", "chat", "rights", "kick", "unban"}
    /\ join.pc \in {"idle", "chat", "allowed", "reply", "message"}
    /\ lpc \in {"start", "sleep", "close", "connect", "add", "done"}
    /\ listener_conn \in {"none", "open", "listening", "closed"}
    /\ DOMAIN LAST_DEPOSIT_REVIEW_ACCESS \subseteq Users
    /\ \A k \in Kinds : review_chats[k] \in ChatRaws

(* ======================= properties: dispatch ========================== *)

Claimed(i) == items[i].review_message_id # 0

\* C1: for every review item at most one claim call returns true, whoever makes
\* the calls (passes of this bot, another claimant, the bot after a restart), and
\* a claimed item never becomes unclaimed again (nor is its claim overwritten).
C1_AtMostOneClaim ==
    /\ [](\A i \in Ids : claimOk[i] <= 1)
    /\ [][\A i \in Ids : Claimed(i) =>
              items'[i].review_message_id = items[i].review_message_id]_vars

\* C1 witness: an item was claimed once and a later claim call on it returned false.
C1_Witness == \E i \in Ids : claimOk[i] = 1 /\ claimNo[i] /\ Claimed(i)

\* C2 as stated: every item is published at most once over the whole execution.
C2_PublishedAtMostOnce == \A i \in Ids : published[i] <= 1

\* C2 amended: within one dispatch pass every item is published at most once, and
\* a pass publishes only items that were pending and unclaimed when it fetched them
\* (an item whose claim was made is not published by any later fetch; an item
\* whose claim raised, or was cut off by a restart, is published again).
C2_PublishedOncePerPass ==
    \A k \in Kinds :
        /\ NoDup(pass.published[k])
        /\ Range(pass.published[k]) \subseteq Range(pass.atFetch[k])

\* C2 witness: the pass published an item that a concurrent claimant then claimed.
C2_Witness ==
    \E k \in Kinds : \E i \in Range(pass.published[k]) :
        items[i].review_message_id = ForeignMessage

\* C3: while its kind's destination is configured and the process is not stopped, a
\* pending unclaimed item with a payload is eventually published and claimed.
C3_NoItemStranded ==
    \A i \in Ids :
        (/\ items[i].status = "pending"
         /\ ~Claimed(i)
         /\ items[i].proof_blob
         /\ ParseChatId(review_chats[items[i].kind]) # 0
         /\ ~stop_event)
        ~> ((published[i] > 0 /\ Claimed(i)) \/ stop_event)

\* The passes C4 is about: the pass ran to its end, kind k had a destination, and
\* when the pass fetched there were more than REVIEW_BATCH_LIMIT unclaimed items of
\* kind k, all with a payload.
C4_Case(k) ==
    /\ pass.state = "finished"
    /\ pass.seen[k]
    /\ Len(pass.atFetch[k]) > REVIEW_BATCH_LIMIT
    /\ Range(pass.atFetch[k]) \subseteq pass.blobs

\* C4 as stated: such a pass publishes exactly the REVIEW_BATCH_LIMIT oldest, oldest first.
C4_ExactlyBatchPublished ==
    \A k \in Kinds :
        C4_Case(k) => pass.published[k] = Take(pass.atFetch[k], REVIEW_BATCH_LIMIT)

\* C4 amended: such a pass, when kind k's destination is configured, attempts to
\* publish exactly the REVIEW_BATCH_LIMIT oldest items, oldest first; the items it
\* publishes are those attempts whose send did not raise, in the same order.
C4_BatchAttemptedOldestFirst ==
    \A k \in Kinds :
        (C4_Case(k) /\ pass.configured[k]) =>
            LET sent(i) == i \notin pass.raised
            IN /\ pass.attempted[k] = Take(pass.atFetch[k], REVIEW_BATCH_LIMIT)
               /\ pass.published[k] = SelectSeq(pass.attempted[k], sent)

\* C4 witness: such a pass, in which one send raised and another was made.
C4_Witness ==
    \E k \in Kinds :
        /\ C4_Case(k)
        /\ pass.configured[k]
        /\ Range(pass.attempted[k]) \cap pass.raised # {}
        /\ pass.published[k] # <<>>

\* C5 as stated: after every dispatch pass the two counters equal the number of
\* claims that returned true during the pass.
C5_CountersAfterEveryPass ==
    pass.state \in {"finished", "failed"} =>
        /\ REVIEW_HEALTH.last_dispatch_deposit_sent = pass.claimed["deposit"]
        /\ REVIEW_HEALTH.last_dispatch_kyc_sent = pass.claimed["kyc"]

\* C5 amended: after every dispatch pass that ends without an exception escaping
\* it, the two counters equal the number of claims of that kind that returned true
\* during the pass (lost claims, empty payloads and raising items are not counted).
C5_CountersAfterFinishedPass ==
    pass.state = "finished" =>
        /\ REVIEW_HEALTH.last_dispatch_deposit_sent = pass.claimed["deposit"]
        /\ REVIEW_HEALTH.last_dispatch_kyc_sent = pass.claimed["kyc"]

\* C5 witness: a finished pass that published more items of a kind than it claimed,
\* and claimed at least one.
C5_Witness ==
    /\ pass.state = "finished"
    /\ \E k \in Kinds : pass.claimed[k] >= 1 /\ Len(pass.published[k]) > pass.claimed[k]

\* A pass that ran to its end and found no pending unclaimed item of either kind.
C6_Case ==
    /\ pass.state = "finished"
    /\ \A k \in Kinds : pass.seen[k] /\ pass.atFetch[k] = <<>>

\* C6: a dispatch pass in which both kinds have zero pending items sets both
\* counters to 0, records the finish time and leaves the error marker empty.
C6_EmptyPassHealth ==
    C6_Case =>
        /\ REVIEW_HEALTH.last_dispatch_deposit_sent = 0
        /\ REVIEW_HEALTH.last_dispatch_kyc_sent = 0
        /\ REVIEW_HEALTH.last_dispatch_finished_at = now
        /\ REVIEW_HEALTH.last_dispatch_error = ""

\* C6 witness: such a pass after a pass of this process that claimed an item (the
\* counters were not 0 before it).
C6_Witness ==
    /\ C6_Case
    /\ env = MaxEnv
    /\ REVIEW_HEALTH.last_dispatch_started_at > 0
    /\ \E i \in Ids : items[i].review_message_id > 0 /\ items[i].status = "pending"

(* ==================== properties: skipped kinds and items ============== *)

\* The setting of kind k names no destination: it is empty, unparsable or zero.
NoDestination(k) == review_chats[k] \in {"", "abc", "0"}

OtherKind(k) == CHOOSE o \in Kinds : o # k

\* The health record's counter of kind k.
HealthCount(k) ==
    IF k = "deposit" THEN REVIEW_HEALTH.last_dispatch_deposit_sent
    ELSE REVIEW_HEALTH.last_dispatch_kyc_sent

\* C19: a pass that finds no destination configured for a kind (the setting is
\* resolved when the pass comes to the kind) skips the kind: it fetches, publishes
\* and claims nothing of it, counts 0 for it and records no error, and it still
\* goes through the other kind.
C19_UnconfiguredKindSkipped ==
    /\ [][\A k \in Kinds :
            (dpc = "chats" /\ kind = k /\ NoDestination(k))
                => /\ dpc' # "fetch"
                   /\ (pass' # pass /\ pass'.state \in {"running", "finished"})
                        => (pass'.seen[k] /\ ~pass'.configured[k])]_vars
    /\ [](\A k \in Kinds :
            (pass.state \in {"running", "finished"} /\ pass.seen[k] /\ ~pass.configured[k])
                => /\ pass.attempted[k] = <<>>
                   /\ pass.published[k] = <<>>
                   /\ pass.claimed[k] = 0
                   /\ ~(dpc \in {"fetch", "publish", "claim"} /\ kind = k)
                   /\ pass.state = "finished"
                        => /\ HealthCount(k) = 0
                           /\ REVIEW_HEALTH.last_dispatch_error = ""
                           /\ pass.seen[OtherKind(k)])

\* A finished pass that skipped the deposit kind, whose setting had become
\* unparsable after an earlier pass claimed a deposit request, while a deposit
\* request with a payload was waiting, and that claimed a KYC request.
C19_Witness ==
    /\ pass.state = "finished"
    /\ review_chats["deposit"] = "abc"
    /\ pass.seen["deposit"]
    /\ ~pass.configured["deposit"]
    /\ pass.claimed["kyc"] >= 1
    /\ \E i \in Ids : /\ items[i].kind = "deposit"
                      /\ items[i].review_message_id > 0
    /\ \E i \in Ids : /\ items[i].kind = "deposit"
                      /\ items[i].status = "pending"
                      /\ items[i].review_message_id = 0
                      /\ items[i].proof_blob

\* The rows the current pass fetched for kind k.
FetchedInPass(k) ==
    IF pass.seen[k] /\ pass.configured[k]
    THEN Range(Take(pass.atFetch[k], Max(1, REVIEW_BATCH_LIMIT)))
    ELSE {}

\* The current pass fetched item i and found its payload empty.
SkippedInPass(i) ==
    /\ pass.state \in {"running", "finished"}
    /\ \E k \in Kinds : i \in FetchedInPass(k)
    /\ i \notin pass.blobs

\* C20: an item a pass fetches with an empty payload is neither published nor
\* claimed: its row stays as it was (pending, unclaimed), the pass does not count
\* it, and while its payload stays empty every later pass fetches it again.
C20_EmptyPayloadSkipped ==
    /\ [](\A i \in Ids : SkippedInPass(i)
            => /\ \A k \in Kinds : /\ i \notin Range(pass.attempted[k])
                                   /\ i \notin Range(pass.published[k])
               /\ published[i] = 0
               /\ claimOk[i] = 0
               /\ items[i].status = "pending"
               /\ items[i].review_message_id = 0)
    /\ [](\A k \in Kinds : pass.claimed[k] <= Cardinality(FetchedInPass(k) \cap pass.blobs))
    /\ [][\A i \in Ids : ~items[i].proof_blob => items'[i] = items[i]]_vars
    /\ \A i \in Ids : [](SkippedInPass(i) => []<>(SkippedInPass(i) \/ stop_event))

\* A finished pass that skipped request 1 for its empty payload and claimed the
\* other request of its batch, after an earlier pass that had fetched request 1
\* too had claimed the other request of its own batch.
C20_Witness ==
    /\ pass.state = "finished"
    /\ SkippedInPass(1)
    /\ \E k \in Kinds : /\ 1 \in FetchedInPass(k)
                        /\ pass.claimed[k] = 1
                        /\ Cardinality({i \in Ids : /\ items[i].kind = k
                                                    /\ items[i].review_message_id > 0}) = 2
    /\ ~stop_event

(* ====================== properties: failures of a pass ================= *)

\* The items of the current pass whose publish or claim raised.
RaisedInPass == pass.raised \cup pass.claimRaised

\* The rows the pass fetched for kind k that had a payload, oldest first.
FetchedWithPayload(k) ==
    LET has(i) == i \in pass.blobs
    IN SelectSeq(Take(pass.atFetch[k], Max(1, REVIEW_BATCH_LIMIT)), has)

\* C21: when publishing or claiming one item raises, the pass goes on: the step
\* leaves the pass running (or finished, after the last item), and a pass that
\* finishes after such a failure has attempted every item with a payload of each
\* batch it fetched, has looked at both kinds and leaves the error marker empty.
C21_ItemFailureConfined ==
    /\ [][(RaisedInPass # {} /\ RaisedInPass' # RaisedInPass /\ RaisedInPass \subseteq RaisedInPass')
            \/ (RaisedInPass = {} /\ RaisedInPass' # {})
                => /\ pass'.state \in {"running", "finished"}
                   /\ dpc' \in {"publish", "chats", "wait", "done"}
                   /\ dpc' = "publish" => (kind' = kind /\ batch' = SkipEmpty(Tail(batch)))]_vars
    /\ []((pass.state = "finished" /\ RaisedInPass # {})
            => /\ REVIEW_HEALTH.last_dispatch_error = ""
               /\ \A k \in Kinds :
                    /\ pass.seen[k]
                    /\ pass.configured[k] => pass.attempted[k] = FetchedWithPayload(k))

\* A finished pass in which the publish of one item raised and a later item of
\* the same batch was published and claimed, and an item of the other kind was
\* claimed as well.
C21_Witness ==
    /\ pass.state = "finished"
    /\ REVIEW_HEALTH.last_dispatch_error = ""
    /\ \E k \in Kinds :
         /\ pass.raised # {}
         /\ pass.raised \subseteq Range(pass.attempted[k])
         /\ \E i \in pass.raised, j \in Range(pass.published[k]) : j > i
         /\ pass.claimed[k] = 1
         /\ pass.claimed[OtherKind(k)] = 1

\* C22: when an exception escapes a dispatch pass the health record gets the
\* marker "dispatch_failed" and the finish time, and the loop goes back to its
\* wait (or leaves, when stop is set); the next pass empties the marker when it
\* starts, and a pass that ends without such an exception leaves it empty.
C22_EscapedFailureRecorded ==
    /\ [][(pass.state = "running" /\ pass'.state = "failed")
            => /\ REVIEW_HEALTH'.last_dispatch_error = "dispatch_failed"
               /\ REVIEW_HEALTH'.last_dispatch_finished_at = now'
               /\ dpc' = IF stop_event' THEN "done" ELSE "wait"]_vars
    /\ [][(pass.state = "failed" /\ pass'.state # "failed")
            => (pass'.state \in {"idle", "running"} /\ REVIEW_HEALTH'.last_dispatch_error = "")]_vars
    /\ [](pass.state = "failed" => REVIEW_HEALTH.last_dispatch_error = "dispatch_failed")
    /\ [](pass.state = "finished" => REVIEW_HEALTH.last_dispatch_error = "")

\* The fetch of a pass has failed after the pass had claimed an item of the other
\* kind: the failure is on record and the loop waits for its next wake.
C22_Witness ==
    /\ pass.state = "failed"
    /\ pass.seen["deposit"]
    /\ pass.claimed["deposit"] = 1
    /\ REVIEW_HEALTH.last_dispatch_error = "dispatch_failed"
    /\ REVIEW_HEALTH.last_dispatch_finished_at > 0
    /\ dpc = "wait"
    /\ ~stop_event

(* ====================== properties: loops and shutdown ================= *)

\* C13: every wake of the dispatch loop, by the signal or by the fallback timeout,
\* starts a pass unless stop is set, and without any notification passes still
\* start again and again until stop is set.
C13_PassesKeepStarting ==
    /\ [][(dpc = "wait" /\ dpc' # "wait")
            => (stop_event \/ (dpc' = "chats" /\ kind' = "deposit" /\ pass'.state = "running"))]_vars
    /\ []<>(stop_event \/ (dpc = "chats" /\ kind = "deposit" /\ pass.state = "running"))

\* A pass has started on the timeout: an earlier pass has finished, no signal is
\* raised and no stop is requested.
C13_Witness ==
    /\ dpc = "chats"
    /\ kind = "deposit"
    /\ pass.state = "running"
    /\ REVIEW_HEALTH.last_dispatch_finished_at > 0
    /\ ~dispatch_event
    /\ ~stop_event

\* C14: shutdown never cuts an operation of the dispatch loop short: the loop
\* exits only from its wait point (or before its first wait), never while a store
\* call or a publish is in flight, so a publish that succeeded is always followed
\* by its claim attempt.
C14_ExitsOnlyAtWaitPoints ==
    [][(dpc \in {"chats", "fetch", "publish", "claim"}) => (dpc' # "done")]_vars

\* C15: no failure of a store query, a publish, a membership call or a
\* subscription attempt ends any of the three loops: a loop that has exited has
\* exited after stop was set.
C15_LoopsExitOnlyOnStop ==
    (dpc = "done" \/ apc = "done" \/ lpc = "done") => stop_event

\* A call has failed, the failure is on record, no stop is requested and the
\* three loops are still running: the listener is connecting again.
C15_Witness ==
    /\ env < MaxEnv
    /\ REVIEW_HEALTH.last_listener_error = "listener_connect_failed"
    /\ lpc = "connect"
    /\ dpc = "wait"
    /\ apc = "wait"
    /\ ~stop_event

(* ========================= properties: listener ======================== *)

\* C11: every successful (re)subscribe of the listener raises the dispatch signal
\* and the access signal, each exactly once for that connect, and each raised
\* signal is taken by its loop, which starts a pass (unless shutdown comes first).
C11_BothSignalsPerConnect ==
    /\ [](\A e \in Events : raised[e] = connects)
    /\ [][connects' > connects => (dispatch_event' /\ access_event')]_vars
    /\ (dispatch_event ~> (~dispatch_event \/ stop_event))
    /\ (access_event ~> (~access_event \/ stop_event))

\* A reconnect after a drop has raised both signals a second time and both loops
\* have taken them.
C11_Witness ==
    /\ connects = 2
    /\ \A e \in Events : raised[e] = 2
    /\ listener_conn = "listening"
    /\ ~dispatch_event
    /\ ~access_event
    /\ ~stop_event

\* C12: whenever there is no working subscription, the listener keeps retrying
\* until the subscription is established or shutdown is requested.
C12_RetriesUntilSubscribed ==
    (listener_conn # "listening") ~> (listener_conn = "listening" \/ stop_event)

(* ========================= properties: tickets ========================= *)

Rendered == ticket_kind # "none"

\* The value a string of decimal digits denotes.
RECURSIVE DecimalValue(_)
DecimalValue(codes) ==
    IF codes = <<>> THEN 0
    ELSE 10 * DecimalValue(SubSeq(codes, 1, Len(codes) - 1)) + (codes[Len(codes)] - 48)

BodyDigits == SubSeq(ticket, Len(TicketPrefix(ticket_kind)) + 1, Len(ticket) - 2)

BodyValue == DecimalValue(BodyDigits)

\* C16: for every kind, seed and request id the ticket is the kind's prefix, then
\* exactly 7 decimal digits, then exactly 2 letters a-z: never empty, of length
\* prefix + 9.
C16_TicketShape ==
    Rendered =>
        LET p == Len(TicketPrefix(ticket_kind))
        IN /\ ticket # <<>>
           /\ Len(ticket) = p + 9
           /\ SubSeq(ticket, 1, p) = TicketPrefix(ticket_kind)
           /\ \A n \in (p + 1)..(p + 7) : ticket[n] \in 48..57
           /\ \A n \in (p + 8)..(p + 9) : ticket[n] \in 97..122

\* C16 witness: a ticket rendered for a negative seed and the empty request id.
C16_Witness == Rendered /\ ticket_no < 0 /\ request_id = <<>> /\ Len(ticket) = 14

\* C17: for every seed that is zero or negative and every request id, the numeric
\* body is in [1000000, 9999999]: 7 digits wide, never all zeros.
C17_BodyRangeNonPositiveSeed ==
    (Rendered /\ ticket_no <= 0) =>
        /\ Len(BodyDigits) = 7
        /\ BodyValue >= 1000000
        /\ BodyValue <= 9999999

\* C17 witness: a ticket rendered for a small negative seed.
C17_Witness == Rendered /\ ticket_no < 0 /\ 0 - ticket_no < 1000000 /\ request_id # <<>>

\* The base-33 rolling hash of a request id, mod 9,000,000, raised by 1,000,000
\* when below 1,000,000 (as a polynomial in 33, every term reduced mod 9,000,000).
RECURSIVE PowMod(_, _, _)
PowMod(b, e, m) == IF e = 0 THEN 1 % m ELSE (b * PowMod(b, e - 1, m)) % m

RECURSIVE Poly33(_, _)
Poly33(id, n) ==
    IF n = 0 THEN 0
    ELSE ((id[n] * PowMod(33, Len(id) - n, 9000000)) % 9000000) + Poly33(id, n - 1)

Raised(v) == IF v < 1000000 THEN v + 1000000 ELSE v

HashOfId(id) == Raised(Poly33(id, Len(id)) % 9000000)

\* C18 as stated: for a non-positive seed the body is the hash of the request id,
\* otherwise it is seed mod 10,000,000, raised by 1,000,000 when below 1,000,000.
C18_BodyAlgorithm ==
    Rendered =>
        BodyValue = IF ticket_no <= 0
                    THEN HashOfId(request_id)
                    ELSE Raised(ticket_no % 10000000)

\* C18 amended: let a be the absolute value of the seed; if a mod 10,000,000 is 0
\* (the seed is zero or a multiple of 10,000,000) the body is the hash of the request
\* id, otherwise it is a mod 10,000,000, raised by 1,000,000 when below 1,000,000.
C18_BodyAlgorithmOfAbsoluteSeed ==
    Rendered =>
        LET a == IF ticket_no < 0 THEN 0 - ticket_no ELSE ticket_no
        IN BodyValue = IF a % 10000000 = 0
                       THEN HashOfId(request_id)
                       ELSE Raised(a % 10000000)

\* C18 witness: a ticket rendered for a positive multiple of 10,000,000 and a
\* request id long enough for its hash to wrap around 9,000,000.
C18_Witness ==
    /\ Rendered
    /\ ticket_no > 0
    /\ ticket_no % 10000000 = 0
    /\ Poly33(request_id, Len(request_id)) >= 9000000

(* ==================== properties: access reconciliation ================ *)

\* The sets a reconciliation pass computes when its rights query returns.
PassRevoke ==
    RevokeIds(LAST_DEPOSIT_REVIEW_ACCESS, CurrentRights, ForceFullScan(sync.chat_id))

PassRestore ==
    RestoreIds(LAST_DEPOSIT_REVIEW_ACCESS, CurrentRights, ForceFullScan(sync.chat_id))

Tracked(snapshot) == DOMAIN snapshot

AllowedIn(snapshot) == {u \in DOMAIN snapshot : snapshot[u]}

DisallowedIn(snapshot) == {u \in DOMAIN snapshot : ~snapshot[u]}

SameChannel == sync.chat_id = LAST_DEPOSIT_REVIEW_CHAT_ID

\* C7: in a pass whose channel id equals the previous pass's, revoke-set = the
\* currently disallowed that were allowed or unknown, plus the identities only in
\* the previous snapshot; restore-set = the currently allowed that were disallowed
\* or unknown.  Previous {A: allowed, B: disallowed} and current {A: disallowed,
\* B: allowed, C: allowed} give revoke {A} and restore {B, C}.
C7_IncrementalDiff ==
    /\ (sync.pc = "rights" /\ SameChannel) =>
          LET prev == LAST_DEPOSIT_REVIEW_ACCESS
              cur  == CurrentRights
          IN /\ PassRevoke = ((DisallowedIn(cur) \ DisallowedIn(prev))
                                \cup (Tracked(prev) \ Tracked(cur)))
             /\ PassRestore = AllowedIn(cur) \ AllowedIn(prev)
    /\ LET A == 2
           B == 3
           C == 4
           prev == (A :> TRUE) @@ (B :> FALSE)
           cur  == (A :> FALSE) @@ (B :> TRUE) @@ (C :> TRUE)
       IN /\ RevokeIds(prev, cur, FALSE) = {A}
          /\ RestoreIds(prev, cur, FALSE) = {B, C}

\* C7 witness: a pass for the same channel that has an identity to revoke which
\* left the rights table and an identity to restore.
C7_Witness ==
    /\ sync.pc = "rights"
    /\ SameChannel
    /\ Tracked(LAST_DEPOSIT_REVIEW_ACCESS) \ Tracked(CurrentRights) # {}
    /\ PassRestore # {}

\* C8: in every reconciliation pass the revoke-set and the restore-set are disjoint
\* and both lie within the identities of the current or the previous snapshot.
C8_DisjointWithinSnapshots ==
    sync.pc = "rights" =>
        /\ PassRevoke \cap PassRestore = {}
        /\ (PassRevoke \cup PassRestore)
               \subseteq (Tracked(CurrentRights) \cup Tracked(LAST_DEPOSIT_REVIEW_ACCESS))

\* C8 witness: a pass for the same channel in which one identity lost the right it
\* had and another gained it.
C8_Witness ==
    /\ sync.pc = "rights"
    /\ SameChannel
    /\ \E u \in PassRevoke : u \in AllowedIn(LAST_DEPOSIT_REVIEW_ACCESS)
    /\ \E u \in PassRestore : u \in DisallowedIn(LAST_DEPOSIT_REVIEW_ACCESS)

C10_OwnerNeverTracked ==
    /\ OWNER_TELEGRAM_ID \notin Tracked(LAST_DEPOSIT_REVIEW_ACCESS)
    /\ sync.pc = "rights" => OWNER_TELEGRAM_ID \notin PassRevoke


\* C23: a reconciliation pass with a configured channel id, positive or negative,
\* attempts a remove-member call for every identity of its revoke-set and an
\* unblock call for every identity of its restore-set: it does not store its
\* snapshot while identities are left without their call, it goes through the
\* identities one after the other, and every revoke comes before every restore.
C23_EveryIdentityAttempted ==
    /\ [][(sync.pc = "rights" /\ (PassRevoke \cup PassRestore) # {})
            => ~(/\ sync'.pc = "idle"
                 /\ LAST_DEPOSIT_REVIEW_ACCESS' = CurrentRights
                 /\ LAST_DEPOSIT_REVIEW_CHAT_ID' = sync.chat_id)]_vars
    /\ [][(sync.pc = "kick" /\ sync'.pc = "kick") => sync'.revoke = Tail(sync.revoke)]_vars
    /\ [][(sync.pc = "unban" /\ sync'.pc = "unban") => sync'.restore = Tail(sync.restore)]_vars
    /\ [][sync.pc = "unban" => sync'.pc # "kick"]_vars

\* main's `finally` cancels the tasks in this step.
TasksCancelled == lpc # "done" /\ lpc' = "done"

\* C24: a reconciliation pass that resolved a channel and loaded the rights
\* snapshot carries both to its end, whatever its membership calls did, and when
\* it returns the stored previous snapshot is the snapshot it loaded and the
\* stored channel id is the id it resolved.
C24_SnapshotPersisted ==
    /\ [][(sync.pc = "rights" /\ sync'.pc \in {"kick", "unban"})
            => (sync'.current = CurrentRights /\ sync'.chat_id = sync.chat_id)]_vars
    /\ [][(sync.pc \in {"kick", "unban"} /\ sync'.pc \in {"kick", "unban"})
            => (sync'.current = sync.current /\ sync'.chat_id = sync.chat_id)]_vars
    /\ [][(sync.pc = "rights" /\ sync'.pc = "idle" /\ env' = env /\ ~TasksCancelled)
            => /\ LAST_DEPOSIT_REVIEW_ACCESS' = CurrentRights
               /\ LAST_DEPOSIT_REVIEW_CHAT_ID' = sync.chat_id]_vars
    /\ [][(sync.pc \in {"kick", "unban"} /\ sync'.pc = "idle" /\ ~TasksCancelled)
            => /\ LAST_DEPOSIT_REVIEW_ACCESS' = sync.current
               /\ LAST_DEPOSIT_REVIEW_CHAT_ID' = sync.chat_id]_vars

\* A pass for the chat 1002 has made a remove-member call and an unblock call and
\* has returned: what it loaded is stored.
C24_Witness ==
    /\ sync.pc = "idle"
    /\ apc = "wait"
    /\ LAST_DEPOSIT_REVIEW_CHAT_ID = 1002
    /\ \E u, v \in Users : /\ u \in DOMAIN LAST_DEPOSIT_REVIEW_ACCESS
                           /\ v \in DOMAIN LAST_DEPOSIT_REVIEW_ACCESS
                           /\ ~LAST_DEPOSIT_REVIEW_ACCESS[u]
                           /\ LAST_DEPOSIT_REVIEW_ACCESS[v]
    /\ LAST_DEPOSIT_REVIEW_ACCESS = CurrentRights

\* C25: a reconciliation pass that finds no channel configured returns without a
\* membership call, with the stored snapshot empty and the stored channel id 0;
\* and a pass that finds a channel while the stored channel id is 0 is a full
\* scan: all the disallowed are revoked and exactly the allowed are restored.
C25_UnconfiguredPassClears ==
    /\ [][(/\ sync.pc = "chat"
            /\ NoDestination("deposit")
            /\ sync' # sync
            /\ env' = env
            /\ ~TasksCancelled)
            => /\ sync'.pc = "idle"
               /\ LAST_DEPOSIT_REVIEW_ACCESS' = <<>>
               /\ LAST_DEPOSIT_REVIEW_CHAT_ID' = 0]_vars
    /\ []((sync.pc = "rights" /\ LAST_DEPOSIT_REVIEW_CHAT_ID = 0)
            => /\ ForceFullScan(sync.chat_id)
               /\ DisallowedIn(CurrentRights) \subseteq PassRevoke
               /\ PassRestore = AllowedIn(CurrentRights))

\* A pass has found the chat setting empty, while the rights table holds a denied
\* admin: nothing is tracked and the access loop waits.
C25_Witness ==
    /\ apc = "wait"
    /\ sync.pc = "idle"
    /\ review_chats["deposit"] = ""
    /\ LAST_DEPOSIT_REVIEW_CHAT_ID = 0
    /\ LAST_DEPOSIT_REVIEW_ACCESS = <<>>
    /\ DisallowedIn(CurrentRights) # {}
    /\ env = 0
    /\ ~access_event

\* C26: a process start leaves nothing tracked, so main's first reconciliation
\* pass, when it finds a channel, is a full one: its revoke-set is the currently
\* disallowed and its restore-set the currently allowed identities of the rights
\* table, whatever was tracked before the start.
C26_FirstPassIsFull ==
    /\ [][(apc # "startup" /\ apc' = "startup")
            => /\ LAST_DEPOSIT_REVIEW_ACCESS' = <<>>
               /\ LAST_DEPOSIT_REVIEW_CHAT_ID' = 0
               /\ sync'.pc = "chat"]_vars
    /\ []((apc = "startup" /\ sync.pc = "rights")
            => /\ ForceFullScan(sync.chat_id)
               /\ PassRevoke = DisallowedIn(CurrentRights)
               /\ PassRestore = AllowedIn(CurrentRights))

\* The first pass of a process that was started again has loaded a rights table
\* with a denied and a granted admin.
C26_Witness ==
    /\ apc = "startup"
    /\ sync.pc = "rights"
    /\ sync.chat_id = 0 - 1001
    /\ review_chats["deposit"] = "-1001"
    /\ env = 0
    /\ DisallowedIn(CurrentRights) # {}
    /\ AllowedIn(CurrentRights) # {}

\* C27: a reconciliation pass that sees the channel id and the rights snapshot the
\* pass before it saw has an empty revoke-set and an empty restore-set, and so
\* returns without a membership call.
C27_UnchangedPassIsEmpty ==
    /\ []((sync.pc = "rights" /\ SameChannel /\ CurrentRights = loaded)
            => (PassRevoke = {} /\ PassRestore = {}))
    /\ [][(sync.pc = "rights" /\ SameChannel /\ CurrentRights = loaded)
            => sync'.pc \notin {"kick", "unban"}]_vars

(* ======================== properties: notifications ==================== *)

\* on_review_notify is called in this step.
Notified == notices'.count = notices.count + 1

\* The message begins with the marker, character for character.
BeginsWithMarker(m) ==
    /\ Len(m) >= Len(ACCESS_SYNC_NOTIFY_PREFIX)
    /\ \A n \in 1..Len(ACCESS_SYNC_NOTIFY_PREFIX) : m[n] = ACCESS_SYNC_NOTIFY_PREFIX[n]

\* The message begins, after any leading white space, with the marker in letters
\* of either case.
BeginsWithMarkerLoosely(m) ==
    \E k \in 0..Len(m) :
        /\ \A n \in 1..k : m[n] \in {9, 10, 11, 12, 13, 32}
        /\ Len(m) >= k + Len(ACCESS_SYNC_NOTIFY_PREFIX)
        /\ \A n \in 1..Len(ACCESS_SYNC_NOTIFY_PREFIX) :
              \/ m[k + n] = ACCESS_SYNC_NOTIFY_PREFIX[n]
              \/ /\ ACCESS_SYNC_NOTIFY_PREFIX[n] \in 97..122
                 /\ m[k + n] = ACCESS_SYNC_NOTIFY_PREFIX[n] - 32

\* C28 as stated: every notification raises exactly one signal, the access signal
\* when the message begins with "access_sync:" and the dispatch signal for every
\* other message.
C28_OneSignalByMarker ==
    [][Notified =>
        IF BeginsWithMarker(notices'.last)
        THEN access_event' /\ dispatch_event' = dispatch_event
        ELSE dispatch_event' /\ access_event' = access_event]_vars

\* C28 amended: every notification raises exactly one signal, the access signal
\* when the message, with leading white space dropped and letters of either case,
\* begins with "access_sync:", and the dispatch signal for every other message,
\* the empty one included.
C28_OneSignalByLooseMarker ==
    [][Notified =>
        IF BeginsWithMarkerLoosely(notices'.last)
        THEN access_event' /\ dispatch_event' = dispatch_event
        ELSE dispatch_event' /\ access_event' = access_event]_vars

\* The second notification, "ACCESS_sync:7", has raised the access signal alone.
C28_Witness ==
    /\ notices.count = 2
    /\ notices.last = <<65, 67, 67, 69, 83, 83, 95, 115, 121, 110, 99, 58, 55>>
    /\ REVIEW_HEALTH.last_notify_payload = notices.last
    /\ access_event
    /\ ~dispatch_event
    /\ apc = "wait"

\* C29: a signal is lowered only by its consumer, in the step that starts a pass;
\* a signal that is raised, also while a pass is running, is followed by the start
\* of a further pass with the signal lowered (unless stop is set first); and a
\* notification that finds its signal raised leaves both signals as they are.
C29_NoWakeLost ==
    /\ [][(dispatch_event /\ ~dispatch_event')
            => (dpc = "wait" /\ dpc' = "chats" /\ pass'.state = "running")]_vars
    /\ [][(access_event /\ ~access_event')
            => (apc = "wait" /\ apc' = "sync" /\ sync'.pc = "chat")]_vars
    /\ (dispatch_event ~> (stop_event \/ (dpc = "chats" /\ kind = "deposit" /\ ~dispatch_event)))
    /\ (access_event ~> (stop_event \/ (apc = "sync" /\ sync.pc = "chat" /\ ~access_event)))
    /\ [][(Notified /\ dispatch_event /\ access_event)
            => (dispatch_event' /\ access_event')]_vars

\* Two notifications have arrived while a dispatch pass that started on the
\* timeout is fetching: the dispatch signal is raised once more.
C29_Witness ==
    /\ notices.count = 2
    /\ notices.last = <<55>>
    /\ dispatch_event
    /\ dpc = "fetch"
    /\ pass.state = "running"
    /\ REVIEW_HEALTH.last_dispatch_finished_at > 0
    /\ ~stop_event


(* ------------------- properties: one pass at a time -------------------- *)

\* The positions of the dispatch loop that lie inside a pass.
InPass == {"chats", "fetch", "publish", "claim"}

\* A step that puts the loop at the beginning of a pass: the first await of the
\* deposit kind, with nothing looked at yet.
PassBegins ==
    /\ dpc' = "chats"
    /\ kind' = "deposit"
    /\ pass' = [NoPass EXCEPT !.state = "running"]
    /\ ~(dpc = "chats" /\ kind = "deposit" /\ pass = pass')

\* C30: the process has at most one dispatch pass in progress. The loop is inside
\* a pass only while one is running, and a running pass has the loop inside it
\* (or cancelled with it at shutdown); a pass begins only from the loop's wait,
\* with no pass running, whatever notifications or timeouts occur; and a running
\* pass never goes back from the kyc kind to the deposit kind.
C30_OnePassAtATime ==
    /\ [](dpc \in InPass => pass.state = "running")
    /\ [](pass.state = "running" => dpc \in InPass \cup {"done"})
    /\ [][PassBegins => (dpc = "wait" /\ pass.state # "running")]_vars
    /\ [][(pass.state = "running" /\ pass'.state = "running" /\ kind = "kyc")
            => kind' # "deposit"]_vars

\* A notification has raised the signal while the running pass is publishing an
\* item of the second kind, after an earlier pass has finished.
C30_Witness ==
    /\ dispatch_event
    /\ dpc = "publish"
    /\ kind = "kyc"
    /\ pass.state = "running"
    /\ REVIEW_HEALTH.last_dispatch_finished_at > 0
    /\ ~stop_event


(* ------------------------ properties: shutdown ------------------------- *)

\* A step in which the access loop leaves its wait for a reconciliation pass.
SyncBegins == apc = "wait" /\ apc' = "sync"

\* A step in which the listener loop goes on to a new connection attempt.
ConnectBegins == lpc \in {"start", "sleep"} /\ lpc' \in {"close", "connect"}

\* C31: with the stop signal set no loop starts anything new (no dispatch pass, no
\* reconciliation pass, no connection attempt); a loop that wakes from its wait
\* with stop set ends; a loop that has ended stays ended; and once stop is set
\* all three loops end.
C31_LoopsEndOnStop ==
    /\ [][stop_event => (~PassBegins /\ ~SyncBegins /\ ~ConnectBegins)]_vars
    /\ [][(stop_event /\ dpc = "wait" /\ dpc' # "wait") => dpc' = "done"]_vars
    /\ [][(stop_event /\ apc = "wait" /\ apc' # "wait") => apc' = "done"]_vars
    /\ [][(stop_event /\ lpc = "sleep" /\ lpc' # "sleep") => lpc' = "done"]_vars
    /\ [][(dpc = "done" => dpc' = "done") /\ (apc = "done" => apc' = "done")
            /\ (lpc = "done" => lpc' = "done")]_vars
    /\ (stop_event ~> (dpc = "done" /\ apc = "done" /\ lpc = "done"))

\* The stop signal is set while the dispatch loop is fetching, the access loop is
\* loading the rights and the listener sleeps on its subscription.
C31_Witness ==
    /\ stop_event
    /\ dpc = "fetch"
    /\ apc = "sync"
    /\ sync.pc = "rights"
    /\ lpc = "sleep"
    /\ listener_conn = "listening"


(* ------------------------ properties: listener state ------------------- *)

\* C32: the health record says listener_connected only while the subscription is
\* alive (a connection that is open with the channel listener on it), and a step
\* that establishes a subscription after a drop finds listener_connected false.
C32_ConnectedOnlyWhileAlive ==
    /\ [](REVIEW_HEALTH.listener_connected => listener_conn = "listening")
    /\ [][(connects' = connects + 1 /\ connects > 0)
            => ~REVIEW_HEALTH.listener_connected]_vars


(* --------------------- properties: subscription handle ----------------- *)

\* C33: one handle at a time.  A connection is opened only when none is held; a
\* handle is discarded only by start_listener and only when it is closed; a closed
\* handle is never brought back; and the callback runs once per notification, on
\* the one handle that is listening.
C33_OneHandle ==
    /\ [][(listener_conn' = "open" /\ listener_conn # "open") => listener_conn = "none"]_vars
    /\ [][(listener_conn' = "none" /\ listener_conn # "none")
            => (listener_conn = "closed" /\ lpc = "close")]_vars
    /\ [][listener_conn = "closed" => listener_conn' \in {"closed", "none"}]_vars
    /\ [][notices' # notices
            => (listener_conn = "listening" /\ notices'.count = notices.count + 1)]_vars

\* A notification has arrived on the second subscription, the first having dropped.
C33_Witness ==
    /\ connects = 2
    /\ listener_conn = "listening"
    /\ notices.count = 1
    /\ env = 0


(* --------------------- properties: snapshot ownership ------------------ *)

\* A step that ends a reconciliation pass (its persist step or its no-channel
\* clear), or the start of a new process.
PassEndsOrProcessStarts ==
    \/ sync.pc # "idle" /\ sync'.pc = "idle"
    \/ apc' = "startup"

\* C34: the previous rights snapshot in memory changes only in the step that ends
\* a reconciliation pass; no other step adds, changes or removes an entry.
C34_SnapshotWrittenByPassOnly ==
    [][LAST_DEPOSIT_REVIEW_ACCESS' # LAST_DEPOSIT_REVIEW_ACCESS => PassEndsOrProcessStarts]_vars


(* ------------------- properties: failed reconciliation ----------------- *)

\* C35: a reconciliation pass that failed on a store error is followed by another
\* pass (unless stop is set), with no further notification needed.
C35_FailedPassRetried ==
    (access_hist.failed /\ apc = "wait") ~> (stop_event \/ apc = "sync")


\* A step in which a pass of the access loop (or of startup) raises.
PassRaises == ~access_hist.failed /\ access_hist'.failed

\* C36: when a reconciliation pass raises before its persist step, the stored
\* previous snapshot and previous channel id are what they were when the pass
\* started, and the pass had not come to any membership call.
C36_FailedPassLeavesState ==
    [][PassRaises
        => /\ LAST_DEPOSIT_REVIEW_ACCESS' = access_hist.before.access
           /\ LAST_DEPOSIT_REVIEW_CHAT_ID' = access_hist.before.chat
           /\ sync.pc \in {"chat", "rights"}]_vars


(* -------------------- properties: interleaved passes ------------------- *)

\* No reconciliation pass is in progress, and the last one to end stored a channel.
PassesFinished ==
    /\ apc = "wait"
    /\ sync.pc = "idle"
    /\ review_chat_cmd.pc \in {"idle", "allowed", "lookup"}
    /\ LAST_DEPOSIT_REVIEW_CHAT_ID # 0

\* C37: once all reconciliation passes have finished, however they interleaved,
\* the stored previous snapshot is the rights snapshot most recently read from the
\* store, and the last membership call issued for an identity agrees with its
\* right in that snapshot (no removal last for an allowed identity, no unblock
\* last for a denied one).
C37_InterleavedPassesConverge ==
    [](PassesFinished
        => /\ LAST_DEPOSIT_REVIEW_ACCESS = access_hist.read
           /\ \A u \in DOMAIN access_hist.read :
                 /\ access_hist.read[u] => access_hist.calls[u] # "kick"
                 /\ ~access_hist.read[u] => access_hist.calls[u] # "unban")


(* ------------------------ properties: join requests -------------------- *)

\* The handler of the join request in progress issues its Telegram call.
JoinAnswered == join.pc # "reply" /\ join'.pc = "reply"

\* The requester is the owner or holds the deposit_review right.
RequesterHasRight ==
    join.user = OWNER_TELEGRAM_ID \/ panel_admins[join.user] = "allowed"

\* C38: a join request is answered only if it targets the chat that the handler
\* found configured; it is approved if the requester is the owner or holds the
\* right when the handler checks, and declined if not; a request for another
\* chat, or with no chat configured, ends without approve or decline (as does one
\* cut short by the end of the process).
C38_JoinApprovedOnlyWithRight ==
    /\ [][JoinAnswered
            => /\ join.pc = "allowed"
               /\ join.chat = join.chat_id
               /\ join.chat_id # 0
               /\ join'.call = (IF RequesterHasRight THEN "approve" ELSE "decline")]_vars
    /\ [][(join.pc = "chat" /\ join' # join /\ apc' # "startup")
            => IF join.chat = ParseChatId(review_chats["deposit"])
               THEN join'.pc = "allowed" /\ join'.chat_id = join.chat
               ELSE join' = NoJoin]_vars
    /\ [](join.call # "none" => join.pc \in {"reply", "message"})

\* An admin who is not the owner and holds the right is being approved.
C38_Witness ==
    /\ join.pc = "reply"
    /\ join.call = "approve"
    /\ join.user # OWNER_TELEGRAM_ID


(* ----------------------- properties: review decisions ------------------ *)

\* The callback data of the input set that is well-formed for kind k:
\* "<prefix>:<approve or reject, in any case>:<non-empty request id>".
WellFormedData(k) ==
    IF k = "deposit"
    THEN {<<100, 101, 112, 58, 97, 112, 112, 114, 111, 118, 101, 58, 55>>,
          <<100, 101, 112, 58, 114, 101, 106, 101, 99, 116, 58, 55>>,
          <<100, 101, 112, 58, 65, 80, 80, 82, 79, 86, 69, 58, 32, 55, 32>>,
          <<100, 101, 112, 58, 97, 112, 112, 114, 111, 118, 101, 58, 55, 58, 56>>}
    ELSE {<<107, 121, 99, 58, 97, 112, 112, 114, 111, 118, 101, 58, 55>>}

\* The clicking user is the owner or holds the review right of the handler's kind.
ClickerHasRight ==
    \/ decision.user = OWNER_TELEGRAM_ID
    \/ decision.kind = "deposit" /\ panel_admins[decision.user] = "allowed"
    \/ decision.kind = "kyc" /\ decision.user \in kyc_reviewers

\* C39: a handler goes on to the remote decision call only with data that is
\* well-formed for its kind, with the button's message in the chat it found
\* configured for that kind, and with a clicking user who is the owner or holds
\* that kind's right when it checks; the call is made only at the end of that
\* path, and the posted message is edited only after a call.
C39_DecisionOnlyWhenEntitled ==
    /\ [](decision.pc # "idle" => decision.data \in WellFormedData(decision.kind))
    /\ [][(decision.pc = "chats" /\ decision'.pc = "allowed")
            => (decision.chat = ParseChatId(review_chats[decision.kind]) /\ decision.chat # 0)]_vars
    /\ [][(decision.pc = "allowed" /\ decision'.pc = "ack") => ClickerHasRight]_vars
    /\ [][(decision'.pc # decision.pc /\ decision'.pc # "idle")
            => <<decision.pc, decision'.pc>> \in
                  {<<"idle", "chats">>, <<"chats", "allowed">>, <<"allowed", "ack">>,
                   <<"ack", "post">>, <<"post", "append">>}]_vars
    /\ [][(~decision.called /\ decision'.called) => decision.pc = "ack"]_vars
    /\ [](decision.edited => decision.called)

\* An admin who holds the kyc right has pressed a kyc button in the kyc chat: the
\* decision is with the API.
C39_Witness ==
    /\ decision.pc = "post"
    /\ decision.kind = "kyc"
    /\ decision.user # OWNER_TELEGRAM_ID
    /\ decision.called


(* ------------------------- properties: panel tokens -------------------- *)

\* Handler h is a get-panel command whose db.create_token returns in this step.
CommandCreates(h) ==
    /\ panel[h].pc = "create"
    /\ panel[h].action = "get"
    /\ tokens'[PanelKey(h)].active = tokens[PanelKey(h)].active + 1

\* C40: a get-panel command creates a token only while its user has no unexpired
\* token of that type, and whatever the interleaving of the commands and of the
\* regenerate and delete buttons, a type and user never have two unexpired tokens.
C40_OneLiveTokenPerUser ==
    /\ [][\A h \in Handlers : CommandCreates(h) => tokens[PanelKey(h)].active = 0]_vars
    /\ [](\A k \in TokenKeys : tokens[k].active <= 1)

====
